---------------------------- MODULE Spec2Model ----------------------------
(***************************************************************************)
(* A model of pgraf's Cypher-to-SQL translator, pgraf/cypher.py.           *)
(*                                                                         *)
(* Text is modelled character by character: a Python str is a sequence of  *)
(* one-character strings, and every regular expression of the source is    *)
(* an operator that scans such a sequence the way `re` does.  Python's     *)
(* None and the empty string are both the empty sequence: the source only  *)
(* ever tests the optional groups for truthiness.                          *)
(***************************************************************************)
EXTENDS Integers, Sequences, FiniteSets, TLC

(***************************************************************************)
(* Characters                                                              *)
(***************************************************************************)
LowerSeq ==
  <<"a","b","c","d","e","f","g","h","i","j","k","l","m",
    "n","o","p","q","r","s","t","u","v","w","x","y","z">>

UpperSeq ==
  <<"A","B","C","D","E","F","G","H","I","J","K","L","M",
    "N","O","P","Q","R","S","T","U","V","W","X","Y","Z">>

\* \w of the re module, restricted to ASCII
WordChars ==
  {LowerSeq[i] : i \in 1..26} \cup {UpperSeq[i] : i \in 1..26}
    \cup {"0","1","2","3","4","5","6","7","8","9"} \cup {"_"}

\* \s of the re module, restricted to the characters the inputs use
SpaceChars == {" ", "\n", "\t"}

IsWord(c) == c \in WordChars

IsSpace(c) == c \in SpaceChars

\* re.IGNORECASE: letters compare by their upper-case form
FoldMap ==
  [c \in WordChars |->
     IF \E i \in 1..26 : LowerSeq[i] = c
       THEN UpperSeq[CHOOSE i \in 1..26 : LowerSeq[i] = c]
       ELSE c]

Fold(c) == IF c \in WordChars THEN FoldMap[c] ELSE c

(***************************************************************************)
(* Scanning helpers.  A value that is used more than once is passed as a   *)
(* parameter, so that each operator is written from few, small parts.      *)
(***************************************************************************)
MinOf(S) == CHOOSE x \in S : \A y \in S : x <= y

MaxOf(S) == CHOOSE x \in S : \A y \in S : y <= x

\* the least element, 0 for the empty set
MinOrZero(S) == IF S = {} THEN 0 ELSE MinOf(S)

\* the text from position i to the end
From(s, i) == SubSeq(s, i, Len(s))

\* w occurs in s at position i
At(s, i, w) ==
  /\ i >= 1
  /\ i + Len(w) - 1 <= Len(s)
  /\ \A k \in 1..Len(w) : s[i + k - 1] = w[k]

\* w occurs in s at position i, ignoring case
AtFold(s, i, w) ==
  /\ i >= 1
  /\ i + Len(w) - 1 <= Len(s)
  /\ \A k \in 1..Len(w) : Fold(s[i + k - 1]) = Fold(w[k])

\* first position >= i at which w occurs, 0 when there is none
Find(s, i, w) == MinOrZero({j \in i..Len(s) : At(s, j, w)})

\* end (exclusive) of the longest run of word characters starting at i
WordEnd(s, i) ==
  IF i > Len(s) THEN i
  ELSE MinOf({j \in i..(Len(s) + 1) : j > Len(s) \/ ~IsWord(s[j])})

\* end (exclusive) of the longest run of white space starting at i
SpaceEnd(s, i) ==
  IF i > Len(s) THEN i
  ELSE MinOf({j \in i..(Len(s) + 1) : j > Len(s) \/ ~IsSpace(s[j])})

\* s between the first and the last of the positions kept
Between(s, keep) ==
  IF keep = {} THEN <<>> ELSE SubSeq(s, MinOf(keep), MaxOf(keep))

\* str.strip()
Strip(s) == Between(s, {j \in 1..Len(s) : ~IsSpace(s[j])})

\* str.startswith / str.endswith for a single character
StartsWith(s, c) == Len(s) >= 1 /\ s[1] = c

EndsWith(s, c) == Len(s) >= 1 /\ s[Len(s)] = c

\* c in s
Contains(s, c) == \E j \in 1..Len(s) : s[j] = c

RECURSIVE SplitOn(_, _)
\* s split at position j, the first separator (0: there is none)
SplitAt(s, c, j) ==
  IF j = 0 THEN <<s>>
  ELSE <<SubSeq(s, 1, j - 1)>> \o SplitOn(From(s, j + 1), c)

\* str.split(c) for a one-character separator
SplitOn(s, c) == SplitAt(s, c, Find(s, 1, <<c>>))

(***************************************************************************)
(* CypherParser._preprocess_query                                          *)
(***************************************************************************)
RECURSIVE RemoveLineComments(_)
\* the comment that starts at i (0: there is none) runs to the line's end
CutLineComment(s, i) ==
  IF i = 0 THEN s
  ELSE SubSeq(s, 1, i - 1)
         \o RemoveLineComments(
              From(s, MinOf({e \in (i + 2)..(Len(s) + 1) :
                               e > Len(s) \/ s[e] = "\n"})))

\* re.sub(r'//.*?$', '', query, flags=re.MULTILINE)
RemoveLineComments(s) == CutLineComment(s, Find(s, 1, <<"/","/">>))

RECURSIVE RemoveBlockComments(_)
\* the comment that starts at i ends at the first */ after it, at j
CutBlockComment(s, i, j) ==
  IF j = 0 THEN s
  ELSE SubSeq(s, 1, i - 1) \o RemoveBlockComments(From(s, j + 2))

BlockCommentFrom(s, i) ==
  CutBlockComment(s, i, IF i = 0 THEN 0 ELSE Find(s, i + 2, <<"*","/">>))

\* re.sub(r'/\*.*?\*/', '', query, flags=re.DOTALL)
RemoveBlockComments(s) == BlockCommentFrom(s, Find(s, 1, <<"/","*">>))

RECURSIVE CollapseSpace(_)
\* the run of white space that starts at j (0: there is none) becomes ' '
CollapseAt(s, j) ==
  IF j = 0 THEN s
  ELSE SubSeq(s, 1, j - 1) \o <<" ">>
         \o CollapseSpace(From(s, SpaceEnd(s, j)))

\* re.sub(r'\s+', ' ', query)
CollapseSpace(s) ==
  CollapseAt(s, MinOrZero({j \in 1..Len(s) : IsSpace(s[j])}))

preprocess_query(q) ==
  Strip(CollapseSpace(RemoveBlockComments(RemoveLineComments(q))))

(***************************************************************************)
(* CypherParser._extract_clause, for the three patterns parse passes:      *)
(*   KW\s+(.*?)(?:STOP|...|$)   searched with re.IGNORECASE                *)
(* The text has no line break left after _preprocess_query, so `.` takes   *)
(* any character and `$` is the end of the text.                           *)
(***************************************************************************)
kwMATCH == <<"M","A","T","C","H">>

kwWHERE == <<"W","H","E","R","E">>

kwRETURN == <<"R","E","T","U","R","N">>

\* the group (.*?) from g: up to the first stop keyword or the end
ClauseFrom(q, g, stops) ==
  Strip(SubSeq(q, g,
          MinOf({j \in g..(Len(q) + 1) :
                   j > Len(q) \/ \E w \in stops : AtFold(q, j, w)}) - 1))

\* the match that starts at the first keyword followed by white space
ClauseAt(q, kw, stops, i) ==
  IF i = 0 THEN <<>> ELSE ClauseFrom(q, SpaceEnd(q, i + Len(kw)), stops)

extract_clause(q, kw, stops) ==
  ClauseAt(q, kw, stops,
    MinOrZero({i \in 1..Len(q) :
                 /\ AtFold(q, i, kw)
                 /\ i + Len(kw) <= Len(q)
                 /\ IsSpace(q[i + Len(kw)])}))

\* lines 53-55
MatchClauseOf(q) == extract_clause(q, kwMATCH, {kwWHERE, kwRETURN})

\* lines 56-58
WhereClauseOf(q) == extract_clause(q, kwWHERE, {kwRETURN})

\* line 59
ReturnClauseOf(q) == extract_clause(q, kwRETURN, {})

(***************************************************************************)
(* The compiled expressions of CypherParser.__init__                       *)
(*                                                                         *)
(* One match attempt of                                                    *)
(*     OPEN word? (:word)? \s* ({ anything-but-} })? CLOSE                  *)
(* at position i is the empty sequence when it fails, else its three       *)
(* groups.  Every quantifier is greedy and none can give a character back  *)
(* to a later part (the part after a run of word characters or of white    *)
(* space never accepts a character of that run), so one scan from left to  *)
(* right decides it: v2 is where the variable ends, l2 where the label     *)
(* ends, w where the white space ends, pe where the } is (0: no map).      *)
(***************************************************************************)
ElemGroups(s, i, v2, l2, w, pe) ==
  <<[variable |-> SubSeq(s, i + 1, v2 - 1),
     label |-> IF l2 > v2 THEN SubSeq(s, v2 + 1, l2 - 1) ELSE <<>>,
     props_str |-> IF pe > 0 THEN SubSeq(s, w + 1, pe - 1) ELSE <<>>]>>

\* CLOSE, at c
ElemClose(s, i, close, v2, l2, w, pe, c) ==
  IF c <= Len(s) /\ s[c] = close
    THEN ElemGroups(s, i, v2, l2, w, pe) ELSE <<>>

ElemAfterProps(s, i, close, v2, l2, w, pe) ==
  ElemClose(s, i, close, v2, l2, w, pe, IF pe > 0 THEN pe + 1 ELSE w)

\* the optional property map in braces
ElemProps(s, i, close, v2, l2, w) ==
  ElemAfterProps(s, i, close, v2, l2, w,
    IF w <= Len(s) /\ s[w] = "{" THEN Find(s, w + 1, <<"}">>) ELSE 0)

\* \s*
ElemSpace(s, i, close, v2, l2) ==
  ElemProps(s, i, close, v2, l2, SpaceEnd(s, l2))

\* (?::(\w+))?, e the end of the word after the colon
ElemLabel(s, i, close, v2, e) ==
  ElemSpace(s, i, close, v2,
    IF v2 <= Len(s) /\ s[v2] = ":" /\ e > v2 + 1 THEN e ELSE v2)

\* (\w+)?
ElemVariable(s, i, close, v2) ==
  ElemLabel(s, i, close, v2, WordEnd(s, v2 + 1))

MatchElemAt(s, i, open, close) ==
  IF i > Len(s) \/ s[i] # open THEN <<>>
  ELSE ElemVariable(s, i, close, WordEnd(s, i + 1))

\* of the attempts [at, m] the successful one at the leftmost position
FirstMatch(attempts) ==
  IF \A x \in attempts : x.m = <<>> THEN <<>>
  ELSE (CHOOSE x \in attempts :
          /\ x.m # <<>>
          /\ \A y \in attempts : y.m # <<>> => x.at <= y.at).m

\* pattern.search(s)
SearchElem(s, open, close) ==
  FirstMatch({[at |-> i, m |-> MatchElemAt(s, i, open, close)] :
                i \in 1..Len(s)})

\* self._node_pattern.search
node_pattern(s) == SearchElem(s, "(", ")")

\* self._rel_pattern.search
rel_pattern(s) == SearchElem(s, "[", "]")

\* (\w+)\.(\w+) from the start of the item: v2 and p2 are the ends of the
\* two words
PropGroups(s, v2, p2) ==
  IF v2 > 1 /\ v2 <= Len(s) /\ s[v2] = "." /\ p2 > v2 + 1
    THEN <<[var_name |-> SubSeq(s, 1, v2 - 1),
            prop_name |-> SubSeq(s, v2 + 1, p2 - 1)]>>
    ELSE <<>>

PropAfterVar(s, v2) == PropGroups(s, v2, WordEnd(s, v2 + 1))

\* self._prop_pattern.match
prop_pattern(s) == PropAfterVar(s, WordEnd(s, 1))

\* the end of a match that closes at k (0: it does not close)
EndAfter(k, n) == IF k = 0 THEN 0 ELSE k + n

\* One match attempt of self._split_pattern, (-\[.*?]->|<-\[.*?]-), at
\* position i: the position after the match, 0 when there is none.
SplitMatchEnd(s, i) ==
  IF At(s, i, <<"-","[">>)
    THEN EndAfter(Find(s, i + 2, <<"]","-",">">>), 3)
  ELSE IF At(s, i, <<"<","-","[">>)
    THEN EndAfter(Find(s, i + 3, <<"]","-">>), 2)
  ELSE 0

RECURSIVE split_pattern(_)
\* the text before the match at i (0: there is none), the match, and the
\* rest split
SplitFrom(s, i) ==
  IF i = 0 THEN <<s>>
  ELSE <<SubSeq(s, 1, i - 1), SubSeq(s, i, SplitMatchEnd(s, i) - 1)>>
         \o split_pattern(From(s, SplitMatchEnd(s, i)))

\* self._split_pattern.split(pattern): the texts between the matches and,
\* the group being a capturing one, the matches themselves
split_pattern(s) ==
  SplitFrom(s, MinOrZero({i \in 1..Len(s) : SplitMatchEnd(s, i) > 0}))

(***************************************************************************)
(* Property maps: a dict is the sequence of its <<key, value>> pairs in    *)
(* insertion order                                                         *)
(***************************************************************************)
\* d[k] = v
DictSet(d, k, v) ==
  IF \E i \in 1..Len(d) : d[i][1] = k
    THEN [i \in 1..Len(d) |-> IF d[i][1] = k THEN <<k, v>> ELSE d[i]]
    ELSE Append(d, <<k, v>>)

\* key, value = prop.split(':', 1), c the place of the first colon
PropEntry(d, prop, c) ==
  IF c = 0 THEN d
  ELSE DictSet(d, Strip(SubSeq(prop, 1, c - 1)), Strip(From(prop, c + 1)))

RECURSIVE PropsFrom(_, _)
\* the loop over props_str.split(',')
PropsFrom(props, d) ==
  IF props = <<>> THEN d
  ELSE PropsFrom(Tail(props),
                 PropEntry(d, Head(props), Find(Head(props), 1, <<":">>)))

parse_properties(props_str) ==
  IF props_str = <<>> THEN <<>> ELSE PropsFrom(SplitOn(props_str, ","), <<>>)

(***************************************************************************)
(* CypherParser._parse_node.  uuid.uuid4() is a draw from UuidPool; the    *)
(* draws of one call are the sequence us, and k is the next one to use.    *)
(***************************************************************************)
MaxUuid == 2

UuidPool == 1..MaxUuid

HexDigits == <<"1","2","3","4","5","6","7","8","9","a","b","c","d","e","f">>

\* f'anon_{str(uuid.uuid4())[:8]}': eight hexadecimal digits of the draw
AnonName(u) ==
  <<"a","n","o","n","_">> \o <<"0","0","0","0","0","0","0">> \o <<HexDigits[u]>>

\* lines 190-207, m the match of the node pattern; drew: a uuid was drawn
NodeOfMatch(m, us, k) ==
  IF m = <<>> THEN <<>>
  ELSE <<[node |-> [variable |-> IF m[1].variable = <<>>
                                   THEN AnonName(us[k]) ELSE m[1].variable,
                    label |-> m[1].label,
                    properties |-> parse_properties(m[1].props_str)],
          drew |-> m[1].variable = <<>>]>>

\* the node (none: the empty sequence) with whether the call drew a uuid
parse_node(node_str, us, k) == NodeOfMatch(node_pattern(node_str), us, k)

(***************************************************************************)
(* CypherParser._parse_pattern.  nodes is the dict of the source as the    *)
(* sequence of its values in insertion order (the key of a node is its     *)
(* variable); cur is current_node, empty for None; k counts the uuids      *)
(* drawn.  The 'id' of a relationship, a uuid nothing reads, is left out.  *)
(***************************************************************************)
NodeVars(nodes) == {nodes[i].variable : i \in 1..Len(nodes)}

\* if v not in nodes: nodes[v] = node
AddNode(nodes, node) ==
  IF node.variable \in NodeVars(nodes) THEN nodes ELSE Append(nodes, node)

\* nodes[v]
NodeOf(nodes, v) == nodes[CHOOSE i \in 1..Len(nodes) : nodes[i].variable = v]

\* lines 138-140 with the two directions exchanged
DirectionSwapped(segment) == IF StartsWith(segment, "<") THEN "out" ELSE "in"

\* lines 138-140
DirectionOf(segment) == IF StartsWith(segment, "<") THEN "in" ELSE "out"

\* lines 154-164
NewRel(rel_match, segment, source, target) ==
  [variable |-> rel_match[1].variable,
   type |-> rel_match[1].label,
   properties |-> parse_properties(rel_match[1].props_str),
   direction |-> DirectionOf(segment),
   source |-> source,
   target |-> target]

\* lines 153-168, next the result of _parse_node for the following segment
RelRecord(st, rel_match, segment, next) ==
  IF next = <<>> THEN st
  ELSE [st EXCEPT
          !.k = st.k + (IF next[1].drew THEN 1 ELSE 0),
          !.relationships =
             Append(st.relationships,
                    NewRel(rel_match, segment, st.cur[1].variable,
                           next[1].node.variable)),
          !.nodes = AddNode(st.nodes, next[1].node)]

\* lines 133-152
RelMatched(st, segments, i, segment, us, rel_match) ==
  IF rel_match = <<>> \/ st.cur = <<>> \/ i + 1 > Len(segments) THEN st
  ELSE RelRecord(st, rel_match, segment, parse_node(segments[i + 1], us, st.k))

\* lines 132-168: a segment that starts with '-' or '<'
RelStep(st, segments, i, segment, us) ==
  RelMatched(st, segments, i, segment, us, rel_pattern(segment))

\* NodeFound without the insertion of lines 174-175
NodeFoundNotInserted(st, found) ==
  IF found = <<>> THEN st
  ELSE [st EXCEPT !.k = st.k + (IF found[1].drew THEN 1 ELSE 0),
                  !.cur = <<found[1].node>>]

\* lines 172-175
NodeFound(st, found) ==
  IF found = <<>> THEN st
  ELSE [st EXCEPT !.k = st.k + (IF found[1].drew THEN 1 ELSE 0),
                  !.cur = <<found[1].node>>,
                  !.nodes = AddNode(st.nodes, found[1].node)]

\* lines 170-175: any other segment
NodeStep(st, segment, us) == NodeFound(st, parse_node(segment, us, st.k))

\* lines 128-175: one turn of the loop
Step(st, segments, i, segment, us) ==
  IF segment = <<>> THEN st
  ELSE IF StartsWith(segment, "-") \/ StartsWith(segment, "<")
    THEN RelStep(st, segments, i, segment, us)
  ELSE NodeStep(st, segment, us)

RECURSIVE Walk(_, _, _, _)
\* the loop of lines 127-175 from segment i on
Walk(st, segments, i, us) ==
  IF i > Len(segments) THEN st
  ELSE Walk(Step(st, segments, i, Strip(segments[i]), us), segments, i + 1, us)

\* its result: [nodes, relationships] (and cur and k, the loop's locals)
parse_pattern(pattern, us) ==
  Walk([nodes |-> <<>>, relationships |-> <<>>, cur |-> <<>>, k |-> 1],
       split_pattern(pattern), 1, us)

\* how many uuids _parse_pattern draws for its anonymous nodes: the walk
\* does not depend on the values drawn
NumDraws(pattern) ==
  parse_pattern(pattern, [j \in 1..(2 * Len(pattern)) |-> 1]).k - 1

(***************************************************************************)
(* psycopg.sql.  A Composable is a sequence of atoms: sql.SQL(template) is *)
(* an atom of kind "SQL" that carries a template of the source and no text *)
(* of the query, sql.Identifier(t) and sql.Literal(t) carry text t.  The   *)
(* one sql.SQL built from query text (line 411) is an "SQL" atom with no   *)
(* template and that text.  SQL(t).format(...) is the concatenation of the *)
(* template's pieces and the arguments; a Composed of Composables is kept  *)
(* as the sequence of its parts.                                           *)
(***************************************************************************)
SQL(template) == [kind |-> "SQL", tpl |-> template, text |-> <<>>]

SQLText(t) == [kind |-> "SQL", tpl |-> "", text |-> t]

Identifier(t) == [kind |-> "Identifier", tpl |-> "", text |-> t]

Literal(t) == [kind |-> "Literal", tpl |-> "", text |-> t]

RECURSIVE JoinWith(_, _)
\* sql.SQL(sep).join(items)
JoinWith(sep, items) ==
  IF items = <<>> THEN <<>>
  ELSE IF Len(items) = 1 THEN items[1]
  ELSE items[1] \o <<SQL(sep)>> \o JoinWith(sep, Tail(items))

(***************************************************************************)
(* CypherParser._generate_sql                                              *)
(***************************************************************************)
\* lines 297-298, 383-384, 403-404: quotes are stripped from a value that
\* starts and ends with a double quote
Unquote(value) ==
  IF StartsWith(value, "\"") /\ EndsWith(value, "\"")
    THEN SubSeq(value, 2, Len(value) - 1)
    ELSE value

\* sql.SQL('{}.*').format(sql.Identifier(v))
AllColumns(v) == <<Identifier(v), SQL(".*")>>

\* AllNodesColumns with the nodes taken last first
AllNodesColumnsReversed(nodes) ==
  [i \in 1..Len(nodes) |-> AllColumns(nodes[Len(nodes) + 1 - i].variable)]

\* lines 254-257, 263-266: one item for every node, in insertion order
AllNodesColumns(nodes) == [i \in 1..Len(nodes) |-> AllColumns(nodes[i].variable)]

\* lines 237-246, m the match of the property pattern
PropertyItem(nodes, m) ==
  IF m # <<>> /\ m[1].var_name \in NodeVars(nodes)
    THEN << <<Identifier(m[1].var_name), SQL(".properties->>"),
              Literal(m[1].prop_name)>> >>
    ELSE <<>>

\* lines 235-257: the items one stripped RETURN item appends
ItemsOf(nodes, item) ==
  IF Contains(item, ".") THEN PropertyItem(nodes, prop_pattern(item))
  ELSE IF item \in NodeVars(nodes) THEN <<AllColumns(item)>>
  ELSE IF item = <<"*">> THEN AllNodesColumns(nodes)
  ELSE <<>>

RECURSIVE ReturnItemsFrom(_, _)
\* the loop of lines 233-257
ReturnItemsFrom(nodes, items) ==
  IF items = <<>> THEN <<>>
  ELSE ItemsOf(nodes, Strip(Head(items)))
         \o ReturnItemsFrom(nodes, Tail(items))

\* ItemsOrDefault without the default of lines 259-267
ItemsNoDefault(nodes, found) == found

\* lines 259-267: the default when the loop found nothing
ItemsOrDefault(nodes, found) ==
  IF found # <<>> THEN found ELSE AllNodesColumns(nodes)

\* return_items at line 267
return_items(nodes, return_clause) ==
  ItemsOrDefault(nodes, ReturnItemsFrom(nodes, SplitOn(return_clause, ",")))

\* lines 228-229, 259-267
select_clause(nodes, return_clause) ==
  << <<SQL("SELECT ")>>, JoinWith(", ", return_items(nodes, return_clause)) >>

\* lines 277-281
from_clause(first_node_var) ==
  << <<SQL(" FROM pgraf.nodes AS "), Identifier(first_node_var)>> >>

\* lines 285-291, 371-377
LabelCondition(node) ==
  IF node.label = <<>> THEN <<>>
  ELSE << <<Identifier(node.variable), SQL(".type = "), Literal(node.label)>> >>

\* lines 294-305, 380-391
PropertyConditions(node) ==
  [i \in 1..Len(node.properties) |->
     <<Identifier(node.variable), SQL(".properties->>"),
       Literal(node.properties[i][1]), SQL("="),
       Literal(Unquote(node.properties[i][2]))>>]

\* lines 283-305 and 369-391: label and property conditions of one node
NodeConditions(node) == LabelCondition(node) \o PropertyConditions(node)

\* lines 311-315
RelVar(rel) ==
  IF rel.variable # <<>> THEN rel.variable
  ELSE <<"r","_">> \o rel.source \o <<"_">> \o rel.target

\* lines 318-322 with the alias put into the SQL text as it is
EdgeJoinRaw(rel_var) ==
  <<SQL(" JOIN pgraf.edges AS "), SQLText(rel_var), SQL(" ON ")>>

\* lines 318-322
EdgeJoin(rel_var) ==
  <<SQL(" JOIN pgraf.edges AS "), Identifier(rel_var), SQL(" ON ")>>

\* lines 325-336
SourceBinding(rel, rel_var) ==
  IF rel.direction = "out"
    THEN <<SQL("("), Identifier(rel.source), SQL(".id = "),
           Identifier(rel_var), SQL(".source AND")>>
    ELSE <<SQL("("), Identifier(rel.source), SQL(".id = "),
           Identifier(rel_var), SQL(".target AND")>>

\* lines 339-344
TypeCondition(rel, rel_var) ==
  IF rel.type = <<>> THEN <<>>
  ELSE << <<SQL(" "), Identifier(rel_var), SQL(".label = "),
            Literal(rel.type), SQL(" AND")>> >>

\* lines 347-358
TargetBinding(rel, rel_var) ==
  IF rel.direction = "out"
    THEN <<SQL(" "), Identifier(rel_var), SQL(".target = "),
           Identifier(rel.target), SQL(".id)")>>
    ELSE <<SQL(" "), Identifier(rel_var), SQL(".source = "),
           Identifier(rel.target), SQL(".id)")>>

\* line 361: the target node gets a JOIN of its own
JoinsTarget(rel, first_node_var) == rel.target # first_node_var

\* lines 363-367
NodeJoin(rel, first_node_var) ==
  IF JoinsTarget(rel, first_node_var)
    THEN << <<SQL(" JOIN pgraf.nodes AS "), Identifier(rel.target),
              SQL(" ON TRUE")>> >>
    ELSE <<>>

\* lines 317-358 with the type condition appended after the closing part
EdgeJoinTypeLast(rel, rel_var) ==
  <<EdgeJoin(rel_var), SourceBinding(rel, rel_var), TargetBinding(rel, rel_var)>>
    \o TypeCondition(rel, rel_var)

\* lines 317-358: the JOIN of the edge relation and its predicate
EdgeJoinClauses(rel, rel_var) ==
  <<EdgeJoin(rel_var), SourceBinding(rel, rel_var)>>
    \o TypeCondition(rel, rel_var)
    \o <<TargetBinding(rel, rel_var)>>

\* RelJoinClauses with the JOIN of the target node put before the JOIN of
\* the edge relation
RelJoinsNodeFirst(rel, first_node_var) ==
  NodeJoin(rel, first_node_var) \o EdgeJoinClauses(rel, RelVar(rel))

\* lines 309-367: what one relationship appends to join_clauses
RelJoinClauses(rel, first_node_var) ==
  EdgeJoinClauses(rel, RelVar(rel)) \o NodeJoin(rel, first_node_var)

\* lines 369-391: what one relationship appends to where_conditions
RelConditions(nodes, rel, first_node_var) ==
  IF JoinsTarget(rel, first_node_var)
    THEN NodeConditions(NodeOf(nodes, rel.target))
    ELSE <<>>

RECURSIVE JoinsReversed(_, _)
\* the loop of lines 308-391 putting each relationship's clauses before
\* those it has
JoinsReversed(relationships, first_node_var) ==
  IF relationships = <<>> THEN <<>>
  ELSE JoinsReversed(Tail(relationships), first_node_var)
         \o RelJoinClauses(Head(relationships), first_node_var)

RECURSIVE join_clauses(_, _)
\* join_clauses after the loop of lines 308-391
join_clauses(relationships, first_node_var) ==
  IF relationships = <<>> THEN <<>>
  ELSE RelJoinClauses(Head(relationships), first_node_var)
         \o join_clauses(Tail(relationships), first_node_var)

RECURSIVE JoinConditions(_, _, _)
\* what the loop of lines 308-391 appends to where_conditions
JoinConditions(nodes, relationships, first_node_var) ==
  IF relationships = <<>> THEN <<>>
  ELSE RelConditions(nodes, Head(relationships), first_node_var)
         \o JoinConditions(nodes, Tail(relationships), first_node_var)

\* the characters [=><!] of the expression of line 397
OperatorChars == {"=", ">", "<", "!"}

\* [^,\s]
IsValueChar(s, j) == j <= Len(s) /\ s[j] # "," /\ ~IsSpace(s[j])

\* end (exclusive) of the longest run of value characters starting at j
ValueEnd(s, j) == MinOf({e \in j..(Len(s) + 1) : ~IsValueChar(s, e)})

\* One match attempt of (\w+)\.(\w+)\s*([=><!]=?)\s*([^,\s]+) at position
\* i: v2 and p2 are the ends of the two words, o is the place of the
\* operator, oe its last character and j the start of the value.
WhereGroups(s, i, v2, p2, o, oe, j) ==
  <<[var_name |-> SubSeq(s, i, v2 - 1),
     prop_name |-> SubSeq(s, v2 + 1, p2 - 1),
     operator |-> SubSeq(s, o, oe),
     value |-> SubSeq(s, j, ValueEnd(s, j) - 1)]>>

\* =?\s*([^,\s]+): a is where the value starts after a two-character
\* operator, b after a one-character one.  The only choice re can take
\* back is the optional '=': when nothing that can start the value follows
\* it, the '=' is the first character of the value.
WhereValue(s, i, v2, p2, o, a, b) ==
  IF o + 1 <= Len(s) /\ s[o + 1] = "=" /\ IsValueChar(s, a)
    THEN WhereGroups(s, i, v2, p2, o, o + 1, a)
  ELSE IF IsValueChar(s, b) THEN WhereGroups(s, i, v2, p2, o, o, b)
  ELSE <<>>

\* \s*([=><!]
WhereOperator(s, i, v2, p2, o) ==
  IF p2 > v2 + 1 /\ o <= Len(s) /\ s[o] \in OperatorChars
    THEN WhereValue(s, i, v2, p2, o, SpaceEnd(s, o + 2), SpaceEnd(s, o + 1))
    ELSE <<>>

\* (\w+)
WhereProp(s, i, v2, p2) == WhereOperator(s, i, v2, p2, SpaceEnd(s, p2))

\* (\w+)\.
WhereVar(s, i, v2) ==
  IF v2 > i /\ v2 <= Len(s) /\ s[v2] = "."
    THEN WhereProp(s, i, v2, WordEnd(s, v2 + 1))
    ELSE <<>>

WhereMatchAt(s, i) == WhereVar(s, i, WordEnd(s, i))

\* re.search(..., where_clause) of lines 396-398
where_pattern(s) ==
  FirstMatch({[at |-> i, m |-> WhereMatchAt(s, i)] : i \in 1..Len(s)})

\* lines 399-414, m the match
ConditionOf(nodes, m) ==
  IF m = <<>> THEN <<>>
  ELSE IF m[1].var_name \notin NodeVars(nodes) THEN <<>>
  ELSE << <<SQL("("), Identifier(m[1].var_name), SQL(".properties->>"),
            Literal(m[1].prop_name), SQL(") "), SQLText(m[1].operator),
            SQL(" "), Literal(Unquote(m[1].value))>> >>

\* lines 394-414: the condition of the WHERE clause
WhereCondition(nodes, where_clause) ==
  IF where_clause = <<>> THEN <<>>
  ELSE ConditionOf(nodes, where_pattern(where_clause))

\* where_conditions with the condition of the WHERE clause put first
ConditionsWhereFirst(nodes, relationships, where_clause) ==
  WhereCondition(nodes, where_clause)
    \o NodeConditions(nodes[1])
    \o JoinConditions(nodes, relationships, nodes[1].variable)

\* where_conditions at line 416
where_conditions(nodes, relationships, where_clause) ==
  NodeConditions(nodes[1])
    \o JoinConditions(nodes, relationships, nodes[1].variable)
    \o WhereCondition(nodes, where_clause)

\* where_fragments without the test of line 417
WhereAlways(conditions) ==
  << <<SQL(" WHERE ")>>, JoinWith(" AND ", conditions) >>

\* lines 417-420
where_fragments(conditions) ==
  IF conditions = <<>> THEN <<>>
  ELSE << <<SQL(" WHERE ")>>, JoinWith(" AND ", conditions) >>

\* The outcome of a call: the exception it raises ("" for none) and the
\* parts of the Composed it returns.
Raised(e) == [error |-> e, parts |-> <<>>]

Returned(parts) == [error |-> "", parts |-> parts]

\* generate_sql with the node inserted last as the source of FROM
GenerateSqlFromLast(nodes, relationships, where_clause, return_clause) ==
  IF nodes = <<>> THEN Raised("StopIteration")
  ELSE Returned(
         select_clause(nodes, return_clause)
           \o from_clause(nodes[Len(nodes)].variable)
           \o join_clauses(relationships, nodes[1].variable)
           \o where_fragments(
                where_conditions(nodes, relationships, where_clause)))

\* next(iter(nodes.values())) of line 274 raises StopIteration on an empty
\* dict, after the projection has been built
generate_sql(nodes, relationships, where_clause, return_clause) ==
  IF nodes = <<>> THEN Raised("StopIteration")
  ELSE Returned(
         select_clause(nodes, return_clause)
           \o from_clause(nodes[1].variable)
           \o join_clauses(relationships, nodes[1].variable)
           \o where_fragments(
                where_conditions(nodes, relationships, where_clause)))

(***************************************************************************)
(* CypherParser.parse                                                      *)
(***************************************************************************)
\* the checks of lines 61-65 with RETURN looked at first
CheckReturnFirst(match_clause, return_clause) ==
  IF return_clause = <<>> THEN "ValueError: RETURN clause is required"
  ELSE IF match_clause = <<>> THEN "ValueError: MATCH clause is required"
  ELSE ""

\* the checks of lines 61-65 without the one of lines 64-65
CheckMatchOnly(match_clause, return_clause) ==
  IF match_clause = <<>> THEN "ValueError: MATCH clause is required" ELSE ""

\* lines 61-65: the ValueError parse raises before it parses the pattern,
\* "" for none
CheckClauses(match_clause, return_clause) ==
  IF match_clause = <<>> THEN "ValueError: MATCH clause is required"
  ELSE IF return_clause = <<>> THEN "ValueError: RETURN clause is required"
  ELSE ""

(***************************************************************************)
(* The query texts.  A query is written from a description (what its      *)
(* author means) by Render; the description is what the claims speak of.  *)
(* An element of a pattern is a node, a relationship, or junk: text that   *)
(* is no element.  A property is [key, text, quoted].                      *)
(***************************************************************************)
Node(var, label, props) ==
  [kind |-> "node", var |-> var, label |-> label, props |-> props,
   dir |-> "", raw |-> <<>>]

Rel(var, type, props, dir) ==
  [kind |-> "rel", var |-> var, label |-> type, props |-> props,
   dir |-> dir, raw |-> <<>>]

Junk(raw) ==
  [kind |-> "junk", var |-> <<>>, label |-> <<>>, props |-> <<>>,
   dir |-> "", raw |-> raw]

Prop(key, text, quoted) == [key |-> key, text |-> text, quoted |-> quoted]

\* a value as written: "text" or text
RenderValue(text, quoted) ==
  IF quoted THEN <<"\"">> \o text \o <<"\"">> ELSE text

RECURSIVE RenderProps(_)
\* key: value, key: value
RenderProps(props) ==
  IF props = <<>> THEN <<>>
  ELSE Head(props).key \o <<":"," ">>
         \o RenderValue(Head(props).text, Head(props).quoted)
         \o (IF Len(props) > 1 THEN <<","," ">> ELSE <<>>)
         \o RenderProps(Tail(props))

\* var:label {props}
RenderInner(e) ==
  e.var \o (IF e.label = <<>> THEN <<>> ELSE <<":">> \o e.label)
    \o (IF e.props = <<>> THEN <<>>
        ELSE <<" ","{">> \o RenderProps(e.props) \o <<"}">>)

RenderElem(e) ==
  IF e.kind = "node" THEN <<"(">> \o RenderInner(e) \o <<")">>
  ELSE IF e.kind = "rel"
    THEN IF e.dir = "out"
           THEN <<"-","[">> \o RenderInner(e) \o <<"]","-",">">>
           ELSE <<"<","-","[">> \o RenderInner(e) \o <<"]","-">>
  ELSE e.raw

RECURSIVE RenderPattern(_)
RenderPattern(elems) ==
  IF elems = <<>> THEN <<>>
  ELSE RenderElem(Head(elems)) \o RenderPattern(Tail(elems))

\* a comparison of a WHERE clause: var.prop op literal
Comparison(var, prop, op, text, quoted, spaced) ==
  [var |-> var, prop |-> prop, op |-> op, text |-> text,
   quoted |-> quoted, spaced |-> spaced, raw |-> <<>>]

\* a WHERE text that is no single comparison
RawWhere(raw) ==
  [var |-> <<>>, prop |-> <<>>, op |-> <<>>, text |-> <<>>,
   quoted |-> FALSE, spaced |-> FALSE, raw |-> raw]

RenderWhere(w) ==
  IF w.raw # <<>> THEN w.raw
  ELSE w.var \o <<".">> \o w.prop
         \o (IF w.spaced THEN <<" ">> ELSE <<>>) \o w.op
         \o (IF w.spaced THEN <<" ">> ELSE <<>>)
         \o RenderValue(w.text, w.quoted)

RECURSIVE RenderItems(_)
\* item, item
RenderItems(items) ==
  IF items = <<>> THEN <<>>
  ELSE Head(items) \o (IF Len(items) > 1 THEN <<","," ">> ELSE <<>>)
         \o RenderItems(Tail(items))

\* a query: MATCH pattern [WHERE where] RETURN items
Built(pattern, where, items) ==
  [form |-> "built", pattern |-> pattern, where |-> where, items |-> items,
   raw |-> <<>>]

\* a query given as its text
Raw(raw) ==
  [form |-> "raw", pattern |-> <<>>, where |-> <<>>, items |-> <<>>,
   raw |-> raw]

Render(d) ==
  IF d.form = "raw" THEN d.raw
  ELSE kwMATCH \o <<" ">> \o RenderPattern(d.pattern)
         \o (IF d.where = <<>> THEN <<>>
             ELSE <<" ">> \o kwWHERE \o <<" ">> \o RenderWhere(d.where[1]))
         \o <<" ">> \o kwRETURN \o <<" ">> \o RenderItems(d.items)


(***************************************************************************)
(* The bounds of the inputs                                                *)
(***************************************************************************)
\* the most relationships in a chain
MaxRels == 2

\* the most elements of a chain that differ from the plain element
MaxDeviations == 2

(***************************************************************************)
(* Chains: (a:A)-[:T]->(b:B)-[:T]->(c:C) ..., with some elements replaced  *)
(***************************************************************************)
PlainNode(i) == Node(<<LowerSeq[i]>>, <<UpperSeq[i]>>, <<>>)

PlainRel == Rel(<<>>, <<"T">>, <<>>, "out")

PlainElem(p) == IF p % 2 = 1 THEN PlainNode((p + 1) \div 2) ELSE PlainRel

\* what takes the place of a node of a chain: (a), (), x
NodeAlts ==
  { Node(<<"a">>, <<>>, <<>>), Node(<<>>, <<>>, <<>>), Junk(<<"x">>) }

\* what takes the place of a relationship of a chain: <-[r:T]-, -[]->, -[a b]->
RelAlts ==
  { Rel(<<"r">>, <<"T">>, <<>>, "in"),
    Rel(<<>>, <<>>, <<>>, "out"),
    Junk(<<"-","[","a"," ","b","]","-",">">>) }

\* the chains of n relationships in which the elements at D are replaced
ChainsWith(n, D) ==
  { [p \in 1..(2 * n + 1) |-> IF p \in D THEN f[p] ELSE PlainElem(p)] :
      f \in {g \in [D -> NodeAlts \cup RelAlts] :
               \A p \in D : g[p] \in (IF p % 2 = 1 THEN NodeAlts ELSE RelAlts)} }

\* the chains of up to MaxRels relationships with up to MaxDeviations
\* elements replaced
Chains ==
  UNION { UNION { ChainsWith(n, D) :
                    D \in {E \in SUBSET (1..(2 * n + 1)) :
                             Cardinality(E) <= MaxDeviations} } :
            n \in 0..MaxRels }

ChainQueries == { Built(ch, <<>>, << <<"*">> >>) : ch \in Chains }

(***************************************************************************)
(* Pairs: one relationship between two nodes, each of the three of any     *)
(* form                                                                    *)
(***************************************************************************)
\* (a:A), (a), (), x, (b {k: "v"})
LeftNodes ==
  NodeAlts \cup { PlainNode(1),
                  Node(<<"b">>, <<>>, <<Prop(<<"k">>, <<"v">>, TRUE)>>) }

\* (b:B), (a), (), x, (b {k: "v"})
RightNodes ==
  NodeAlts \cup { PlainNode(2),
                  Node(<<"b">>, <<>>, <<Prop(<<"k">>, <<"v">>, TRUE)>>) }

\* -[:T]->, <-[r:T]-, -[]->, -[a b]->, <-[:T {w: 1}]-, -[a]->
PairRels ==
  RelAlts \cup { PlainRel,
                 Rel(<<>>, <<"T">>, <<Prop(<<"w">>, <<"1">>, FALSE)>>, "in"),
                 Rel(<<"a">>, <<>>, <<>>, "out") }

PairQueries ==
  { Built(<<l, r, n>>, <<>>, << <<"*">> >>) :
      l \in LeftNodes, r \in PairRels, n \in RightNodes }

(***************************************************************************)
(* Nodes with properties, alone and as the target of a relationship        *)
(***************************************************************************)
PropLists ==
  { <<Prop(<<"n","a","m","e">>, <<"O","'","B","r","i","e","n">>, TRUE)>>,
    <<Prop(<<"n","a","m","e">>, <<"a",",","b">>, TRUE)>>,
    <<Prop(<<"n","a","m","e">>, <<"x"," ","y">>, TRUE)>>,
    <<Prop(<<"n","a","m","e">>, <<"a",":","b">>, TRUE)>>,
    <<Prop(<<"n","a","m","e">>, <<>>, TRUE)>>,
    <<Prop(<<"k">>, <<"1">>, FALSE), Prop(<<"n","a","m","e">>, <<"x">>, TRUE)>>,
    <<Prop(<<"k">>, <<"v">>, TRUE), Prop(<<"j">>, <<"3">>, FALSE)>> }

PropQueries ==
  { Built(<<Node(<<"p">>, <<"P">>, pl)>>, <<>>, << <<"p">> >>) : pl \in PropLists }
    \cup
  { Built(<<PlainNode(1), r, Node(<<"p">>, <<>>, pl)>>, <<>>, << <<"p">> >>) :
      pl \in PropLists, r \in {PlainRel, Rel(<<"r">>, <<>>, <<>>, "in")} }

(***************************************************************************)
(* WHERE clauses and RETURN clauses, on (a:A)-[r:T]->(b:B {k: "v"})        *)
(***************************************************************************)
TwoNodes ==
  <<PlainNode(1), Rel(<<"r">>, <<"T">>, <<>>, "out"),
    Node(<<"b">>, <<"B">>, <<Prop(<<"k">>, <<"v">>, TRUE)>>)>>

\* the six operators of the specification, and three texts that are none
SixOperators ==
  { <<"=">>, <<"<">>, <<">">>, <<"<","=">>, <<">","=">>, <<"!","=">> }

OtherOperators == { <<"=","=">>, <<"<",">">>, <<"!">> }

\* bare tokens and quoted strings
WhereLiterals ==
  { Prop(<<>>, <<"3","0">>, FALSE),
    Prop(<<>>, <<"x">>, TRUE),
    Prop(<<>>, <<"x"," ","y">>, TRUE) }

Comparisons ==
  { Comparison(v, <<"a","g","e">>, op, l.text, l.quoted, TRUE) :
      v \in { <<"a">>, <<"r">>, <<"z">> },
      op \in SixOperators \cup OtherOperators,
      l \in WhereLiterals }
    \cup
  { Comparison(<<"b">>, <<"k">>, op, <<"3","0">>, FALSE, FALSE) :
      op \in SixOperators \cup OtherOperators }
    \cup
  \* z.k = "return x": a literal that holds a keyword
  { Comparison(<<"z">>, <<"k">>, <<"=">>,
               <<"r","e","t","u","r","n"," ","x">>, TRUE, TRUE) }

RawWheres ==
  { RawWhere(<<"a",".","a","g","e">>),                         \* a.age
    RawWhere(<<"a","g","e"," ",">"," ","3","0">>),             \* age > 30
    RawWhere(<<"a",".","a","g","e"," ",">","=">>),             \* a.age >=
    RawWhere(<<"a",".","k"," ","="," ","1"," ","A","N","D"," ",
               "b",".","k"," ","="," ","2">>) }                \* a.k = 1 AND b.k = 2

WhereQueries ==
  { Built(TwoNodes, <<w>>, << <<"a",".","k">>, <<"b">> >>) :
      w \in Comparisons \cup RawWheres }

ReturnQueries ==
  { Built(TwoNodes, <<>>, items) :
      items \in
       { << <<"a",".","k">> >>,                           \* a.k
         << <<"a">> >>,                                   \* a
         << <<"*">> >>,                                   \* *
         << <<"z",".","k">> >>,                           \* z.k
         << <<"z">> >>,                                   \* z
         << <<"r">> >>,                                   \* r
         << <<"a",".">> >>,                               \* a.
         << <<"a",".","k">>, <<"b">> >>,                  \* a.k, b
         << <<"*">>, <<"a">> >>,                          \* *, a
         << <<"b">>, <<"*">>, <<"a",".","k">> >>,         \* b, *, a.k
         << <<"z">>, <<"y",".","k">> >>,                  \* z, y.k
         << <<"a",".","k">>, <<"z",".","k">>, <<"b",".","k">> >> } }  \* a.k, z.k, b.k

(***************************************************************************)
(* Texts that try the clause extraction                                    *)
(***************************************************************************)
RawQueries ==
  { Raw(q) : q \in {
     <<"R","E","T","U","R","N"," ","a">>,   \* no MATCH keyword: RETURN a
     <<"(","a",")"," ","R","E","T","U","R","N"," ","a">>,   \* no MATCH keyword: (a) RETURN a
     <<"(","a",")">>,   \* neither keyword: (a)
     <<"M","A","T","C","H">>,   \* MATCH alone: MATCH
     <<"M","A","T","C","H"," ","R","E","T","U","R","N"," ","a">>,   \* MATCH directly before RETURN: MATCH RETURN a
     <<"M","A","T","C","H"," ","W","H","E","R","E"," ","a",".","k"," ","="," ","1"," ","R","E","T","U","R","N"," ","a">>,   \* MATCH directly before WHERE: MATCH WHERE a.k = 1 RETURN a
     <<"M","A","T","C","H"," ","W","H","E","R","E"," ","a",".","k"," ","="," ","1">>,   \* MATCH directly before WHERE, no RETURN: MATCH WHERE a.k = 1
     <<"M","A","T","C","H"," ","(","a",")">>,   \* no RETURN: MATCH (a)
     <<"M","A","T","C","H"," ","(","a",")"," ","W","H","E","R","E"," ","a",".","k"," ","="," ","1">>,   \* no RETURN: MATCH (a) WHERE a.k = 1
     <<"M","A","T","C","H"," ","(","a",")"," ","R","E","T","U","R","N">>,   \* RETURN with nothing after it: MATCH (a) RETURN
     <<"M","A","T","C","H"," ","(","a",")","-","[",":","T","]","-",">","(","b",")"," ","R","E","T","U","R","N"," ">>,   \* RETURN with nothing after it: MATCH (a)-[:T]->(b) RETURN 
     <<"m","a","t","c","h"," ","(","a",")"," ","w","h","e","r","e"," ","a",".","k"," ","="," ","1"," ","r","e","t","u","r","n"," ","a">>,   \* lower-case keywords: match (a) where a.k = 1 return a
     <<"M","A","T","C","H"," ","x"," ","R","E","T","U","R","N"," ","x">>,   \* no node in the MATCH clause: MATCH x RETURN x
     <<"M","A","T","C","H"," ","-","[","r","]","-",">"," ","R","E","T","U","R","N"," ","r">>,   \* no node in the MATCH clause: MATCH -[r]-> RETURN r
     <<"M","A","T","C","H"," ","(","a"," ","R","E","T","U","R","N"," ","a">>,   \* no node in the MATCH clause: MATCH (a RETURN a
     <<"M","A","T","C","H"," ","(","a",":","R","E","T","U","R","N","E","D",")"," ","R","E","T","U","R","N"," ","a">>,   \* a label that holds a keyword: MATCH (a:RETURNED) RETURN a
     <<"M","A","T","C","H"," ","(","a"," ","{","k",":"," ","\"","w","h","e","r","e","\"","}",")"," ","R","E","T","U","R","N"," ","a">>,   \* a value that holds a keyword: MATCH (a {k: "where"}) RETURN a
     <<"M","A","T","C","H"," ","(","a",")","-","[",":","T","]","-",">","(","r","e","m","a","t","c","h"," ",")"," ","R","E","T","U","R","N"," ","a">>,   \* a variable that holds a keyword: MATCH (a)-[:T]->(rematch ) RETURN a
     <<"M","A","T","C","H"," ","(","a",":","A",")"," ","/","/"," ","t","h","e"," ","n","o","d","e","\n"," "," ","R","E","T","U","R","N"," ","a",".","k">>,   \* a line comment and line breaks: MATCH (a:A) // the node\n  RETURN a.k
     <<"M","A","T","C","H"," ","/","*"," ","a","l","l"," ","*","/"," ","(","a",":","A",")","\n","R","E","T","U","R","N"," ","*">>   \* a block comment: MATCH /* all */ (a:A)\nRETURN *
  } }

\* names and values that hold the letters of a keyword: (a:Returned),
\* (whereto:A), (rematch:A), (a {returns: 1}), (a {k: "where"}),
\* (a:A)-[:T]->(b:Match), each with RETURN of the node variable
KeywordNodes ==
  { <<Node(<<"a">>, <<"R","e","t","u","r","n","e","d">>, <<>>)>>,
    <<Node(<<"w","h","e","r","e","t","o">>, <<"A">>, <<>>)>>,
    <<Node(<<"r","e","m","a","t","c","h">>, <<"A">>, <<>>)>>,
    <<Node(<<"a">>, <<>>,
           <<Prop(<<"r","e","t","u","r","n","s">>, <<"1">>, FALSE)>>)>>,
    <<Node(<<"a">>, <<>>,
           <<Prop(<<"k">>, <<"w","h","e","r","e">>, TRUE)>>)>>,
    <<PlainNode(1), PlainRel,
      Node(<<"b">>, <<"M","a","t","c","h">>, <<>>)>> }

KeywordQueries ==
  { Built(pattern, <<>>, <<pattern[1].var>>) : pattern \in KeywordNodes }

\* patterns that come back to a node: (a:A)-[:T]->(b:B)-[:T]->(b) and
\* (a:A)-[:T]->(b:B)<-[r:T]-(b)
RevisitQueries ==
  { Built(<<PlainNode(1), PlainRel, PlainNode(2), rel,
            Node(<<"b">>, <<>>, <<>>)>>, <<>>, << <<"*">> >>) :
      rel \in {PlainRel, Rel(<<"r">>, <<"T">>, <<>>, "in")} }

\* relationships written with properties, between (a:A) and (b:B):
\* -[r:T {w: 1}]->, <-[:T {since: "x"}]-, -[:T {note: "no return"}]->,
\* -[:T {w: "}"}]->
RelPropQueries ==
  { Built(<<PlainNode(1), rel, PlainNode(2)>>, <<>>, << <<"a">>, <<"b">> >>) :
      rel \in
        { Rel(<<"r">>, <<"T">>, <<Prop(<<"w">>, <<"1">>, FALSE)>>, "out"),
          Rel(<<>>, <<"T">>,
              <<Prop(<<"s","i","n","c","e">>, <<"x">>, TRUE)>>, "in"),
          Rel(<<>>, <<"T">>,
              <<Prop(<<"n","o","t","e">>,
                     <<"n","o"," ","r","e","t","u","r","n">>, TRUE)>>, "out"),
          Rel(<<>>, <<"T">>, <<Prop(<<"w">>, <<"}">>, TRUE)>>, "out") } }

Queries ==
  ChainQueries \cup PairQueries \cup PropQueries \cup WhereQueries \cup ReturnQueries
    \cup RawQueries \cup KeywordQueries \cup RevisitQueries
    \cup RelPropQueries

(***************************************************************************)
(* The calls.  Each call of parse has its own locals; Calls are the calls  *)
(* in flight on the one CypherParser instance.                             *)
(***************************************************************************)
Calls == {1, 2}

VARIABLES
  written,        \* the description the argument was written from
  input,          \* the argument of the call
  pc,             \* where the call stands
  query,          \* the local `query`
  match_clause,
  where_clause,
  return_clause,
  nodes,
  relationships,
  draws,          \* the uuids the call has drawn for anonymous nodes
  result,         \* what the call returned or raised
  self            \* the attributes of the CypherParser instance the calls share

vars == <<written, input, pc, query, match_clause, where_clause, return_clause,
          nodes, relationships, draws, result, self>>

\* lines 29-36: the instance holds the four compiled expressions, by the
\* operators that match them
CypherParser ==
  [ _node_pattern |-> "node_pattern", _rel_pattern |-> "rel_pattern",
    _prop_pattern |-> "prop_pattern", _split_pattern |-> "split_pattern" ]

\* lines 120-121: `nodes` and `relationships` are local variables of the
\* call, so every call has a frame of its own
FrameShared(c) == 1

Frame(c) == c

\* a call that is not made
NoCall == Raw(<<>>)

InitLocals ==
  /\ input = [c \in Calls |-> Render(written[c])]
  /\ query = input
  /\ pc = [c \in Calls |-> IF written[c] = NoCall THEN "idle" ELSE "called"]
  /\ match_clause = [c \in Calls |-> <<>>]
  /\ where_clause = [c \in Calls |-> <<>>]
  /\ return_clause = [c \in Calls |-> <<>>]
  /\ nodes = [c \in Calls |-> <<>>]
  /\ relationships = [c \in Calls |-> <<>>]
  /\ draws = [c \in Calls |-> <<>>]
  /\ result = [c \in Calls |-> Returned(<<>>)]
  /\ self = CypherParser

\* one call, of any of the queries
Init ==
  /\ written \in {[c \in Calls |-> IF c = 1 THEN d ELSE NoCall] : d \in Queries}
  /\ InitLocals

\* line 50
Preprocess(c) ==
  /\ pc[c] = "called"
  /\ query' = [query EXCEPT ![c] = preprocess_query(query[c])]
  /\ pc' = [pc EXCEPT ![c] = "preprocessed"]
  /\ UNCHANGED <<written, input, match_clause, where_clause, return_clause,
                 nodes, relationships, draws, result, self>>

\* lines 53-59
ExtractClauses(c) ==
  /\ pc[c] = "preprocessed"
  /\ match_clause' = [match_clause EXCEPT ![c] = MatchClauseOf(query[c])]
  /\ where_clause' = [where_clause EXCEPT ![c] = WhereClauseOf(query[c])]
  /\ return_clause' = [return_clause EXCEPT ![c] = ReturnClauseOf(query[c])]
  /\ pc' = [pc EXCEPT ![c] = "extracted"]
  /\ UNCHANGED <<written, input, query, nodes, relationships, draws, result,
                 self>>

\* lines 61-65
RaiseValueError(c) ==
  /\ pc[c] = "extracted"
  /\ CheckClauses(match_clause[c], return_clause[c]) # ""
  /\ result' = [result EXCEPT
                  ![c] = Raised(CheckClauses(match_clause[c], return_clause[c]))]
  /\ pc' = [pc EXCEPT ![c] = "raised"]
  /\ UNCHANGED <<written, input, query, match_clause, where_clause, return_clause,
                 nodes, relationships, draws, self>>

\* line 68
ParsePattern(c) ==
  /\ pc[c] = "extracted"
  /\ CheckClauses(match_clause[c], return_clause[c]) = ""
  /\ \E us \in [1..NumDraws(match_clause[c]) -> UuidPool] :
       LET parsed == parse_pattern(match_clause[c], us)
       IN /\ nodes' = [nodes EXCEPT ![Frame(c)] = parsed.nodes]
          /\ relationships' =
               [relationships EXCEPT ![Frame(c)] = parsed.relationships]
          /\ draws' = [draws EXCEPT ![c] = us]
  /\ pc' = [pc EXCEPT ![c] = "parsed"]
  /\ UNCHANGED <<written, input, query, match_clause, where_clause, return_clause,
                 result, self>>

\* lines 71-73
GenerateSql(c) ==
  /\ pc[c] = "parsed"
  /\ LET out == generate_sql(nodes[Frame(c)], relationships[Frame(c)],
                             where_clause[c], return_clause[c])
     IN /\ result' = [result EXCEPT ![c] = out]
        /\ pc' = [pc EXCEPT ![c] = IF out.error = "" THEN "returned" ELSE "raised"]
  /\ UNCHANGED <<written, input, query, match_clause, where_clause, return_clause,
                 nodes, relationships, draws, self>>

Next ==
  \E c \in Calls :
    \/ Preprocess(c)
    \/ ExtractClauses(c)
    \/ RaiseValueError(c)
    \/ ParsePattern(c)
    \/ GenerateSql(c)

Spec == Init /\ [][Next]_vars

(***************************************************************************)
(* Two calls with the same argument, the second made when the first has    *)
(* ended                                                                   *)
(***************************************************************************)
TwiceQueries ==
  PairQueries \cup PropQueries \cup WhereQueries \cup ReturnQueries
    \cup RawQueries

InitTwice ==
  /\ written \in {[c \in Calls |-> IF c = 1 THEN d ELSE NoCall] : d \in TwiceQueries}
  /\ InitLocals

\* parse is called again with the argument of the call c that has ended
CallAgain(c, d) ==
  /\ pc[c] \in {"raised", "returned"}
  /\ pc[d] = "idle"
  /\ written' = [written EXCEPT ![d] = written[c]]
  /\ input' = [input EXCEPT ![d] = input[c]]
  /\ query' = [query EXCEPT ![d] = input[c]]
  /\ pc' = [pc EXCEPT ![d] = "called"]
  /\ UNCHANGED <<match_clause, where_clause, return_clause, nodes,
                 relationships, draws, result, self>>

NextTwice ==
  \/ Next
  \/ \E c, d \in Calls : CallAgain(c, d)

SpecTwice == InitTwice /\ [][NextTwice]_vars

(***************************************************************************)
(* Two calls on one instance, their steps interleaved in any order         *)
(***************************************************************************)
SharedQueries ==
  { Built(ch, <<>>, << <<"*">> >>) :
      ch \in ChainsWith(1, {1}) \cup ChainsWith(1, {3}) }
    \cup
  { Built(<<PlainNode(1)>>,
          <<Comparison(<<"a">>, <<"k">>, <<"=">>, <<"1">>, FALSE, TRUE)>>,
          << <<"a",".","k">> >>),
    Raw(kwMATCH \o <<" ","(","a",")">>) }

InitShared ==
  /\ written \in [Calls -> SharedQueries]
  /\ InitLocals

SpecShared == InitShared /\ [][Next]_vars

\* lines 38-73: parse as a function of the query text and of the uuids the
\* call draws, which is what a call yields when it runs alone
parse(q, us) ==
  LET text == preprocess_query(q)
      m == MatchClauseOf(text)
      w == WhereClauseOf(text)
      r == ReturnClauseOf(text)
  IN IF CheckClauses(m, r) # "" THEN Raised(CheckClauses(m, r))
     ELSE LET parsed == parse_pattern(m, us)
          IN generate_sql(parsed.nodes, parsed.relationships, w, r)

(***************************************************************************)
(* The claims                                                              *)
(***************************************************************************)
MatchRequired == "ValueError: MATCH clause is required"

ReturnRequired == "ValueError: RETURN clause is required"

\* the call has passed the checks of lines 61-65 or has ended
Decided(c) == pc[c] \in {"raised", "parsed", "returned"}

\* C1: a call whose MATCH clause text and RETURN clause text are both
\* non-empty returns a query; the only failure of parse is the ValueError for
\* an empty MATCH or RETURN clause.  In particular a MATCH clause in which
\* no node segment parses raises nothing else.
OnlyStructuralErrors ==
  \A c \in Calls :
    pc[c] = "raised" =>
      /\ result[c].error \in {MatchRequired, ReturnRequired}
      /\ match_clause[c] = <<>> \/ return_clause[c] = <<>>

\* C2: a call whose extracted MATCH clause is empty raises 'MATCH clause is
\* required' whatever the RETURN clause is, also when it is empty too; it
\* never parses a pattern or generates SQL.
EmptyMatchIsRequired ==
  \A c \in Calls :
    (Decided(c) /\ match_clause[c] = <<>>) =>
      /\ pc[c] = "raised"
      /\ result[c] = Raised(MatchRequired)
      /\ nodes[c] = <<>> /\ relationships[c] = <<>> /\ draws[c] = <<>>

\* C2, its case: a call with neither a MATCH nor a RETURN clause has raised
EmptyMatchRaised ==
  \E c \in Calls :
    /\ pc[c] = "raised"
    /\ input[c] # <<>>
    /\ match_clause[c] = <<>>
    /\ return_clause[c] = <<>>

\* C3: a call with a non-empty MATCH clause and an empty RETURN clause
\* raises 'RETURN clause is required' and returns no part of a query.
EmptyReturnIsRequired ==
  \A c \in Calls :
    (Decided(c) /\ match_clause[c] # <<>> /\ return_clause[c] = <<>>) =>
      /\ pc[c] = "raised"
      /\ result[c] = Raised(ReturnRequired)
      /\ nodes[c] = <<>> /\ relationships[c] = <<>> /\ draws[c] = <<>>

\* C3, its case: a call with a MATCH clause and no RETURN clause has raised
EmptyReturnRaised ==
  \E c \in Calls :
    /\ pc[c] = "raised"
    /\ match_clause[c] # <<>>
    /\ return_clause[c] = <<>>

\* the templates of the sql.SQL objects of _generate_sql, cut at their {}
Templates ==
  { "SELECT ", ", ", ".*", ".properties->>", " FROM pgraf.nodes AS ",
    ".type = ", "=", " JOIN pgraf.edges AS ", " ON ", "(", ".id = ",
    ".source AND", ".target AND", " ", ".label = ", " AND", ".target = ",
    ".source = ", ".id)", " JOIN pgraf.nodes AS ", " ON TRUE", ") ",
    " WHERE ", " AND " }

\* the places of a query: part i, atom j
Places(parts) ==
  { ij \in (1..Len(parts)) \X (1..MaxOf({0} \cup {Len(parts[k]) : k \in 1..Len(parts)})) :
      ij[2] <= Len(parts[ij[1]]) }

\* the atom at part i, place j is the operator of a WHERE comparison: it
\* stands in the last part, between ') ' and ' ', before the last literal
IsWhereOperator(parts, i, j) ==
  /\ i = Len(parts)
  /\ j > 1 /\ j + 2 = Len(parts[i])
  /\ parts[i][j - 1] = SQL(") ")
  /\ parts[i][j + 1] = SQL(" ")
  /\ parts[i][j + 2].kind = "Literal"
  /\ parts[i][j].tpl = ""
  /\ \A k \in 1..Len(parts[i][j].text) : parts[i][j].text[k] \in OperatorChars

\* C4: in every query returned, text of the query text stands only in
\* Identifier and Literal atoms; every SQL atom is one of the fixed
\* templates and carries no text, but for the operator of the WHERE
\* comparison.
QueryTextIsWrapped ==
  \A c \in Calls :
    pc[c] = "returned" =>
      \A ij \in Places(result[c].parts) :
        /\ result[c].parts[ij[1]][ij[2]].kind \in {"SQL", "Identifier", "Literal"}
        /\ result[c].parts[ij[1]][ij[2]].kind = "SQL" =>
             \/ /\ result[c].parts[ij[1]][ij[2]].text = <<>>
                /\ result[c].parts[ij[1]][ij[2]].tpl \in Templates
             \/ IsWhereOperator(result[c].parts, ij[1], ij[2])

\* C4, its case: a query returned with an edge alias, a relationship type, a
\* property value and a WHERE comparison in it
WrappedTextReturned ==
  \E c \in Calls :
    /\ pc[c] = "returned"
    /\ relationships[c] # <<>>
    /\ \E ij \in Places(result[c].parts) :
         IsWhereOperator(result[c].parts, ij[1], ij[2])
    /\ \E ij \in Places(result[c].parts) :
         result[c].parts[ij[1]][ij[2]] = Literal(<<"T">>)
    /\ \E ij \in Places(result[c].parts) :
         result[c].parts[ij[1]][ij[2]] = Literal(<<"v">>)

\* the conditions of a query: its last part when ' WHERE ' stands before it
WherePart(parts) ==
  IF Len(parts) >= 2 /\ parts[Len(parts) - 1] = <<SQL(" WHERE ")>>
    THEN parts[Len(parts)] ELSE <<>>

\* the condition stands among the conditions of the query
HasCondition(parts, cond) ==
  \E j \in 1..Len(WherePart(parts)) :
    /\ At(WherePart(parts), j, cond)
    /\ j = 1 \/ WherePart(parts)[j - 1] = SQL(" AND ")
    /\ \/ j + Len(cond) - 1 = Len(WherePart(parts))
       \/ WherePart(parts)[j + Len(cond)] = SQL(" AND ")

\* alias.properties->>key = text
PropertyEquality(alias, key, text) ==
  <<Identifier(alias), SQL(".properties->>"), Literal(key), SQL("="),
    Literal(text)>>

\* the element at p of the pattern call c was given is a named node, the
\* first written with its variable
IsNamedNodeAt(c, p) ==
  /\ written[c].pattern[p].kind = "node"
  /\ written[c].pattern[p].var # <<>>
  /\ \A q \in 1..(p - 1) :
       written[c].pattern[q].kind = "node" =>
         written[c].pattern[q].var # written[c].pattern[p].var

\* v is the base node of call c or the target of a relationship that is
\* joined
IsFiltered(c, v) ==
  /\ nodes[c] # <<>>
  /\ \/ v = nodes[c][1].variable
     \/ \E k \in 1..Len(relationships[c]) : relationships[c][k].target = v

\* C5: for every property written key: "text" on a node that is the base
\* node or a joined target node, the query has the condition
\* alias.properties->>key = text, with the literal exactly the text
\* between the quotes.
QuotedValueIsLiteral ==
  \A c \in Calls :
    (pc[c] = "returned" /\ written[c].form = "built") =>
      \A p \in 1..Len(written[c].pattern) :
        (IsNamedNodeAt(c, p) /\ IsFiltered(c, written[c].pattern[p].var)) =>
          \A k \in 1..Len(written[c].pattern[p].props) :
            written[c].pattern[p].props[k].quoted =>
              HasCondition(result[c].parts,
                PropertyEquality(written[c].pattern[p].var,
                                 written[c].pattern[p].props[k].key,
                                 written[c].pattern[p].props[k].text))

\* the k-th number of a set of numbers
Nth(S, k) == CHOOSE x \in S : Cardinality({y \in S : y <= x}) = k

\* the part of a query opens the JOIN of an edge relation
IsEdgeJoin(part) ==
  Len(part) = 3 /\ part[1] = SQL(" JOIN pgraf.edges AS ") /\ part[3] = SQL(" ON ")

\* where the edge JOINs of a query stand
EdgeJoinsAt(parts) == {i \in 1..Len(parts) : IsEdgeJoin(parts[i])}

\* the places of the relationships written that parse records: one that has
\* a node somewhere before it and a node next after it
RecordedAt(pattern) ==
  { p \in 1..Len(pattern) :
      /\ pattern[p].kind = "rel"
      /\ \E q \in 1..(p - 1) : pattern[q].kind = "node"
      /\ p + 1 <= Len(pattern)
      /\ pattern[p + 1].kind = "node" }

\* the MATCH clause call c extracted is the pattern it was written with, and
\* every relationship of the pattern is a text the relationship expression
\* matches
ParsesAsWritten(c) ==
  /\ written[c].form = "built"
  /\ match_clause[c] = RenderPattern(written[c].pattern)
  /\ \A p \in 1..Len(written[c].pattern) :
       written[c].pattern[p].kind = "rel"
         => rel_pattern(RenderElem(written[c].pattern[p])) # <<>>

\* the node written last before place p
LeftOf(pattern, p) ==
  pattern[MaxOf({q \in 1..(p - 1) : pattern[q].kind = "node"})]

\* a synthetic name: anon_ and eight hexadecimal digits
IsAnonName(t) == Len(t) = 13 /\ SubSeq(t, 1, 5) = <<"a","n","o","n","_">>

\* the alias t names the node written as e
Names(t, e) == IF e.var = <<>> THEN IsAnonName(t) ELSE t = e.var

\* the predicate that stands after the edge JOIN at e binds the left node
\* l and the right node r as the direction dir asks
BindsAs(parts, e, dir, l, r) ==
  /\ e + 2 <= Len(parts)
  /\ Len(parts[e + 1]) = 5
  /\ parts[e + 1][1] = SQL("(")
  /\ parts[e + 1][2].kind = "Identifier" /\ Names(parts[e + 1][2].text, l)
  /\ parts[e + 1][3] = SQL(".id = ")
  /\ parts[e + 1][4] = parts[e][2]
  /\ parts[e + 1][5] = SQL(IF dir = "out" THEN ".source AND" ELSE ".target AND")
  /\ \E t \in {e + 2, e + 3} :
       /\ t <= Len(parts)
       /\ t = e + 3 => (Len(parts[e + 2]) = 5 /\ parts[e + 2][3] = SQL(".label = "))
       /\ Len(parts[t]) = 5
       /\ parts[t][1] = SQL(" ")
       /\ parts[t][2] = parts[e][2]
       /\ parts[t][3] = SQL(IF dir = "out" THEN ".target = " ELSE ".source = ")
       /\ parts[t][4].kind = "Identifier" /\ Names(parts[t][4].text, r)
       /\ parts[t][5] = SQL(".id)")

\* C6: the join predicate of every relationship recorded follows the
\* direction written: for -[...]-> it binds left.id = edge.source and
\* edge.target = right.id, for <-[...]- it binds left.id = edge.target and
\* edge.source = right.id, left and right being the nodes written before and
\* after the relationship.
JoinFollowsDirection ==
  \A c \in Calls :
    (pc[c] = "returned" /\ ParsesAsWritten(c)) =>
      /\ Cardinality(EdgeJoinsAt(result[c].parts))
           = Cardinality(RecordedAt(written[c].pattern))
      /\ \A k \in 1..Cardinality(RecordedAt(written[c].pattern)) :
           BindsAs(result[c].parts,
                   Nth(EdgeJoinsAt(result[c].parts), k),
                   written[c].pattern[Nth(RecordedAt(written[c].pattern), k)].dir,
                   LeftOf(written[c].pattern, Nth(RecordedAt(written[c].pattern), k)),
                   written[c].pattern[Nth(RecordedAt(written[c].pattern), k) + 1])

\* C6, its case: a query returned for a pattern with a relationship of each
\* direction
BothDirectionsJoined ==
  \E c \in Calls :
    /\ pc[c] = "returned"
    /\ written[c].form = "built"
    /\ \E p \in RecordedAt(written[c].pattern) : written[c].pattern[p].dir = "in"
    /\ \E p \in RecordedAt(written[c].pattern) : written[c].pattern[p].dir = "out"
    /\ Cardinality(EdgeJoinsAt(result[c].parts)) = 2

\* where the node JOINs of a query stand
NodeJoinsAt(parts) ==
  { i \in 1..Len(parts) :
      /\ Len(parts[i]) = 3
      /\ parts[i][1] = SQL(" JOIN pgraf.nodes AS ")
      /\ parts[i][3] = SQL(" ON TRUE") }

\* where the FROM sources of a query stand
FromAt(parts) ==
  { i \in 1..Len(parts) :
      Len(parts[i]) = 2 /\ parts[i][1] = SQL(" FROM pgraf.nodes AS ") }

\* where ' JOIN ' stands in a query, whatever is joined
AnyJoinAt(parts) ==
  { i \in 1..Len(parts) :
      /\ Len(parts[i]) >= 1
      /\ parts[i][1].tpl \in {" JOIN pgraf.edges AS ", " JOIN pgraf.nodes AS "} }

\* the alias of a relationship: its variable, else r_<source>_<target>
AliasOf(rel) ==
  IF rel.variable # <<>> THEN rel.variable
  ELSE <<"r","_">> \o rel.source \o <<"_">> \o rel.target

\* the pattern is a chain: nodes with variables, no two the same, with a
\* relationship between each two
IsNamedChain(pattern) ==
  /\ Len(pattern) % 2 = 1
  /\ \A p \in 1..Len(pattern) :
       IF p % 2 = 1
         THEN pattern[p].kind = "node" /\ pattern[p].var # <<>>
         ELSE pattern[p].kind = "rel"
  /\ \A p, q \in 1..Len(pattern) :
       (p % 2 = 1 /\ q % 2 = 1 /\ p # q) => pattern[p].var # pattern[q].var

\* C7: a query has as many edge JOINs as relationships are recorded, in the
\* order they are met; a pattern without a relationship gives one FROM
\* source and no JOIN at all; a chain of n distinct named nodes gives n-1
\* edge JOINs and n-1 node JOINs.
JoinsCountRelationships ==
  \A c \in Calls :
    pc[c] = "returned" =>
      /\ Cardinality(EdgeJoinsAt(result[c].parts)) = Len(relationships[c])
      /\ \A k \in 1..Len(relationships[c]) :
           result[c].parts[Nth(EdgeJoinsAt(result[c].parts), k)][2]
             = Identifier(AliasOf(relationships[c][k]))
      /\ Cardinality(FromAt(result[c].parts)) = 1
      /\ relationships[c] = <<>> => AnyJoinAt(result[c].parts) = {}
      /\ ParsesAsWritten(c) =>
           /\ Len(relationships[c]) = Cardinality(RecordedAt(written[c].pattern))
           /\ IsNamedChain(written[c].pattern) =>
                /\ Cardinality(EdgeJoinsAt(result[c].parts))
                     = (Len(written[c].pattern) - 1) \div 2
                /\ Cardinality(NodeJoinsAt(result[c].parts))
                     = (Len(written[c].pattern) - 1) \div 2

\* C7, its case: a query returned for a chain of three distinct named
\* nodes, with two edge JOINs
ChainJoined ==
  \E c \in Calls :
    /\ pc[c] = "returned"
    /\ written[c].form = "built"
    /\ IsNamedChain(written[c].pattern)
    /\ Len(written[c].pattern) = 5
    /\ Cardinality(EdgeJoinsAt(result[c].parts)) = 2
    /\ Cardinality(NodeJoinsAt(result[c].parts)) = 2

\* the part is a type condition: ' alias.label = type AND'
IsTypeCondition(part) == Len(part) = 5 /\ part[3] = SQL(".label = ")

\* the part opens a join predicate: '(node.id = alias.source AND'
IsSourceBinding(part) ==
  /\ Len(part) = 5
  /\ part[1] = SQL("(")
  /\ part[5] \in {SQL(".source AND"), SQL(".target AND")}

\* the part closes a join predicate: ' alias.target = node.id)'
IsTargetBinding(part) == Len(part) = 5 /\ part[5] = SQL(".id)")

\* ' alias.label = type AND'
TypeEquality(alias, type) ==
  <<SQL(" "), alias, SQL(".label = "), Literal(type), SQL(" AND")>>

\* the relationship of type `type` joined at e has its type condition, and
\* no more than it, between the two bindings of its predicate
TypeInsidePredicate(parts, e, type) ==
  /\ e + 2 <= Len(parts)
  /\ IsSourceBinding(parts[e + 1])
  /\ IF type = <<>>
       THEN IsTargetBinding(parts[e + 2])
       ELSE /\ e + 3 <= Len(parts)
            /\ parts[e + 2] = TypeEquality(parts[e][2], type)
            /\ IsTargetBinding(parts[e + 3])

\* the type written for the k-th relationship recorded
WrittenType(pattern, k) == pattern[Nth(RecordedAt(pattern), k)].label

\* C8: every relationship recorded with a type has one type condition, on
\* its own edge alias and with the type as its literal, inside its own join
\* predicate between the source binding and the target binding; a
\* relationship without a type has none; the query has no other type
\* condition, and none among the conditions of WHERE.
TypeIsInJoinPredicate ==
  \A c \in Calls :
    pc[c] = "returned" =>
      /\ \A k \in 1..Len(relationships[c]) :
           /\ k <= Cardinality(EdgeJoinsAt(result[c].parts))
           /\ TypeInsidePredicate(result[c].parts,
                                  Nth(EdgeJoinsAt(result[c].parts), k),
                                  relationships[c][k].type)
           /\ written[c].form = "built" =>
                relationships[c][k].type = WrittenType(written[c].pattern, k)
      /\ Cardinality({i \in 1..Len(result[c].parts) :
                        \E j \in 1..Len(result[c].parts[i]) :
                          result[c].parts[i][j] = SQL(".label = ")})
           = Cardinality({k \in 1..Len(relationships[c]) :
                            relationships[c][k].type # <<>>})
      /\ \A j \in 1..Len(WherePart(result[c].parts)) :
           WherePart(result[c].parts)[j] # SQL(".label = ")

\* C8, its case: a query returned with conditions after WHERE, for a typed
\* relationship and an untyped one
TypedAndUntypedJoined ==
  \E c \in Calls :
    /\ pc[c] = "returned"
    /\ WherePart(result[c].parts) # <<>>
    /\ \E k \in 1..Len(relationships[c]) : relationships[c][k].type = <<"T">>
    /\ \E k \in 1..Len(relationships[c]) : relationships[c][k].type = <<>>
    /\ \E i \in 1..Len(result[c].parts) : IsTypeCondition(result[c].parts[i])

\* (alias.properties->>prop) op literal
ComparisonOn(alias, prop, op, text) ==
  <<SQL("("), Identifier(alias), SQL(".properties->>"), Literal(prop),
    SQL(") "), SQLText(op), SQL(" "), Literal(text)>>

\* where the conditions of a query start in its WHERE part
ConditionsAt(parts) ==
  { j \in 1..Len(WherePart(parts)) :
      j = 1 \/ WherePart(parts)[j - 1] = SQL(" AND ") }

\* where the comparisons start: the conditions that open with '('
ComparisonsAt(parts) ==
  { j \in ConditionsAt(parts) : WherePart(parts)[j] = SQL("(") }

\* the WHERE clause call c extracted is the comparison it was written with:
\* v.prop op literal, v a node of the pattern, op one of the six operators
\* and the literal a bare token
IsSupportedComparison(c) ==
  /\ written[c].form = "built"
  /\ written[c].where # <<>>
  /\ written[c].where[1].raw = <<>>
  /\ where_clause[c] = RenderWhere(written[c].where[1])
  /\ written[c].where[1].var \in NodeVars(nodes[c])
  /\ written[c].where[1].op \in SixOperators
  /\ ~written[c].where[1].quoted

\* C9: when the WHERE text is one comparison v.prop op literal on a node v
\* of the pattern, with one of the six operators and a bare token, the
\* conditions hold exactly one comparison, on property prop of v with that
\* operator and that literal, and it is the last of the conditions, after
\* the label and property conditions; no WHERE text gives more than one
\* comparison.
WhereGivesOneComparison ==
  \A c \in Calls :
    pc[c] = "returned" =>
      /\ Cardinality(ComparisonsAt(result[c].parts)) <= 1
      /\ where_clause[c] = <<>> => ComparisonsAt(result[c].parts) = {}
      /\ IsSupportedComparison(c) =>
           /\ Cardinality(ComparisonsAt(result[c].parts)) = 1
           /\ \A j \in ComparisonsAt(result[c].parts) :
                /\ j = MaxOf(ConditionsAt(result[c].parts))
                /\ From(WherePart(result[c].parts), j)
                     = ComparisonOn(written[c].where[1].var,
                                    written[c].where[1].prop,
                                    written[c].where[1].op,
                                    written[c].where[1].text)

\* C9, its case: a query returned for WHERE a.age >= 30, with the label
\* conditions of the pattern and the comparison
ComparisonReturned ==
  \E c \in Calls :
    /\ pc[c] = "returned"
    /\ IsSupportedComparison(c)
    /\ written[c].where[1].op = <<">","=">>
    /\ Cardinality(ConditionsAt(result[c].parts)) > 1
    /\ Cardinality(ComparisonsAt(result[c].parts)) = 1

\* the text with every synthetic name anon_0000000h in it, alone or inside
\* a derived alias, renamed by rho, a map of the pool of uuids
RenameText(t, rho) ==
  [i \in 1..Len(t) |->
     IF /\ i > 12
        /\ SubSeq(t, i - 12, i - 1) = SubSeq(AnonName(1), 1, 12)
        /\ \E u \in UuidPool : t[i] = HexDigits[u]
       THEN HexDigits[rho[CHOOSE u \in UuidPool : t[i] = HexDigits[u]]]
       ELSE t[i]]

\* the parts of a query with the synthetic names renamed
RenameParts(parts, rho) ==
  [i \in 1..Len(parts) |->
     [j \in 1..Len(parts[i]) |->
        [parts[i][j] EXCEPT !.text = RenameText(parts[i][j].text, rho)]]]

\* two outcomes are the same up to a renaming of the synthetic names
SameUpToRenaming(r1, r2) ==
  /\ r1.error = r2.error
  /\ \E rho \in Permutations(UuidPool) : RenameParts(r1.parts, rho) = r2.parts

\* C10: two calls of parse with the same query text give the same outcome:
\* fragment sequences of the same length with the same kinds, templates,
\* identifiers and literals, but for a consistent renaming of the synthetic
\* names of anonymous nodes and of the aliases derived from them.
SameTextSameQuery ==
  \A c, d \in Calls :
    (/\ pc[c] \in {"raised", "returned"}
     /\ pc[d] \in {"raised", "returned"}
     /\ input[c] = input[d]) =>
      SameUpToRenaming(result[c], result[d])

\* C11: the calls never write the attributes of the instance they share,
\* and whatever the order in which the steps of two calls on that instance
\* are taken, a call that has ended has the result that parse gives for its
\* argument and its uuids when it runs alone.
CallsDoNotInterfere ==
  /\ self = CypherParser
  /\ \A c \in Calls :
       pc[c] \in {"raised", "returned"}
         => result[c] = parse(input[c], draws[c])

\* both calls were in flight at once with different patterns, and both ended
BothCallsEnded ==
  /\ pc[1] = "returned"
  /\ pc[2] = "returned"
  /\ nodes[1] # nodes[2]
  /\ draws[1] # <<>>
  /\ result[1] # result[2]

\* the clauses of the call have been extracted
Extracted(c) == pc[c] \in {"extracted", "raised", "parsed", "returned"}

\* C12: for a query written without a WHERE clause, the extracted WHERE text
\* is empty and the extracted MATCH clause is the whole pattern written
\* between the MATCH keyword and the RETURN keyword, also when a name or a
\* value of the pattern holds the letters of a keyword.
KeywordsDelimitClauses ==
  \A c \in Calls :
    (Extracted(c) /\ written[c].form = "built" /\ written[c].where = <<>>)
      => /\ where_clause[c] = <<>>
         /\ match_clause[c] = RenderPattern(written[c].pattern)

\* C13: the operator of every comparison of a query returned is one of the
\* six operators =, <, >, <=, >=, !=, and a WHERE text written with any
\* other operator gives no comparison.
OperatorIsOneOfSix ==
  \A c \in Calls :
    pc[c] = "returned" =>
      /\ \A j \in ComparisonsAt(result[c].parts) :
           WherePart(result[c].parts)[j + 5].text \in SixOperators
      /\ ( /\ written[c].form = "built"
           /\ written[c].where # <<>>
           /\ written[c].where[1].op \in OtherOperators )
           => ComparisonsAt(result[c].parts) = {}

\* C14: when the WHERE text compares a property of a node of the pattern
\* with a double-quoted string, the comparison of the query returned
\* carries as its literal exactly the text written between the quotes, also
\* when that text holds a space.
QuotedLiteralIsWhole ==
  \A c \in Calls :
    ( /\ pc[c] = "returned"
      /\ written[c].form = "built"
      /\ written[c].where # <<>>
      /\ written[c].where[1].raw = <<>>
      /\ written[c].where[1].quoted
      /\ written[c].where[1].op \in SixOperators
      /\ written[c].where[1].var \in NodeVars(nodes[c]) )
      => /\ ComparisonsAt(result[c].parts) # {}
         /\ \A j \in ComparisonsAt(result[c].parts) :
              WherePart(result[c].parts)[j + 7]
                = Literal(written[c].where[1].text)

\* the WHERE text call c was written with is no comparison on a node of the
\* pattern: the expression of lines 396-398 finds nothing in it, or what it
\* finds names a variable that is no key of nodes
IsIgnoredWhere(c) ==
  /\ written[c].form = "built"
  /\ written[c].where # <<>>
  /\ LET m == where_pattern(RenderWhere(written[c].where[1]))
     IN m = <<>> \/ m[1].var_name \notin NodeVars(nodes[c])

\* the query of call c written without its WHERE clause
WithoutWhere(c) ==
  Render(Built(written[c].pattern, <<>>, written[c].items))

\* C15: when the WHERE text does not parse as a comparison, or compares a
\* property of a name that is no node variable of the pattern (an unknown
\* name, a relationship variable), the call ends as the call for the same
\* query written without the WHERE clause ends.
UnusableWhereIsIgnored ==
  \A c \in Calls :
    (pc[c] \in {"raised", "returned"} /\ IsIgnoredWhere(c))
      => result[c] = parse(WithoutWhere(c), draws[c])

\* the written item is a property access v.prop
IsPropertyAccess(item) ==
  \E k \in 2..(Len(item) - 1) :
    /\ item[k] = "."
    /\ \A i \in 1..Len(item) : i # k => IsWord(item[i])

\* what the projection holds for one written RETURN item, ns being
\* Pattern.nodes: v.prop and v give one item when v is a node, * gives the
\* columns of every node, anything else gives nothing
ProjectedFor(ns, item) ==
  IF IsPropertyAccess(item)
    THEN LET k == CHOOSE i \in 1..Len(item) : item[i] = "."
         IN IF SubSeq(item, 1, k - 1) \in NodeVars(ns)
              THEN << <<Identifier(SubSeq(item, 1, k - 1)),
                        SQL(".properties->>"),
                        Literal(SubSeq(item, k + 1, Len(item)))>> >>
              ELSE <<>>
  ELSE IF item \in NodeVars(ns) THEN << <<Identifier(item), SQL(".*")>> >>
  ELSE IF item = <<"*">>
    THEN [i \in 1..Len(ns) |-> <<Identifier(ns[i].variable), SQL(".*")>>]
  ELSE <<>>

RECURSIVE ProjectedItems(_, _)
ProjectedItems(ns, items) ==
  IF items = <<>> THEN <<>>
  ELSE ProjectedFor(ns, Head(items)) \o ProjectedItems(ns, Tail(items))

\* the RETURN clause call c extracted is the item list it was written with
HasWrittenItems(c) ==
  /\ written[c].form = "built"
  /\ return_clause[c] = RenderItems(written[c].items)

HasStar(items) == \E i \in 1..Len(items) : items[i] = <<"*">>

\* C16: the projection of a query returned is never empty; for a RETURN
\* clause without *, it holds, in RETURN order, one item for every item
\* v.prop or v whose v is a node of the pattern and nothing for the other
\* items, and when no item is recognized it holds the columns of every node
\* of the pattern in insertion order.
ProjectionFollowsReturn ==
  \A c \in Calls :
    pc[c] = "returned" =>
      /\ result[c].parts[2] # <<>>
      /\ (HasWrittenItems(c) /\ ~HasStar(written[c].items)) =>
           result[c].parts[2]
             = JoinWith(", ",
                 IF ProjectedItems(nodes[c], written[c].items) # <<>>
                   THEN ProjectedItems(nodes[c], written[c].items)
                   ELSE ProjectedFor(nodes[c], <<"*">>))

\* C16, its case: a query returned for RETURN a.k, z.k, b.k, whose z is no
\* node of the pattern
UnknownItemDropped ==
  \E c \in Calls :
    /\ pc[c] = "returned"
    /\ HasWrittenItems(c)
    /\ written[c].items = << <<"a",".","k">>, <<"z",".","k">>, <<"b",".","k">> >>
    /\ <<"z">> \notin NodeVars(nodes[c])
    /\ Len(result[c].parts[2]) = 7

\* C17: for a RETURN clause that holds *, the projection holds at the place
\* of the * one all-columns item for every node of Pattern.nodes, in
\* insertion order, between the items of the RETURN items before and after.
StarGivesEveryNode ==
  \A c \in Calls :
    (pc[c] = "returned" /\ HasWrittenItems(c) /\ HasStar(written[c].items))
      => result[c].parts[2]
           = JoinWith(", ", ProjectedItems(nodes[c], written[c].items))

\* C17, its case: a query returned for RETURN b, *, a.k on a pattern of two
\* nodes
StarBetweenItems ==
  \E c \in Calls :
    /\ pc[c] = "returned"
    /\ HasWrittenItems(c)
    /\ written[c].items = << <<"b">>, <<"*">>, <<"a",".","k">> >>
    /\ Len(nodes[c]) = 2
    /\ Len(result[c].parts[2]) = 12

\* every element of the pattern call c was written with parses: nodes and
\* relationships in turn, none of them junk
IsParsedChain(c) ==
  /\ written[c].form = "built"
  /\ match_clause[c] = RenderPattern(written[c].pattern)
  /\ \A p \in 1..Len(written[c].pattern) : written[c].pattern[p].kind # "junk"

\* C18: in a chain whose elements all parse, the source of every recorded
\* relationship but the first is the target of the relationship recorded
\* before it, also when the node between the two is anonymous.
LaterSourceIsEarlierTarget ==
  \A c \in Calls :
    (pc[c] \in {"parsed", "returned"} /\ IsParsedChain(c)) =>
      \A k \in 1..(Len(relationships[c]) - 1) :
        relationships[c][k + 1].source = relationships[c][k].target

\* the places of the relationships written between two nodes: an element
\* that parses as a node stands next before and next after
BetweenNodesAt(pattern) ==
  { p \in 2..(Len(pattern) - 1) :
      /\ pattern[p].kind = "rel"
      /\ pattern[p - 1].kind = "node"
      /\ pattern[p + 1].kind = "node" }

\* C19: the relationships recorded are the relationships written with a
\* node next before and a node next after them, in the order written; a
\* relationship next to an element that does not parse as a node is dropped,
\* and none is recorded with an earlier node of the pattern as its source.
RecordedBetweenNodes ==
  \A c \in Calls :
    (pc[c] \in {"parsed", "returned"} /\ written[c].form = "built"
       /\ match_clause[c] = RenderPattern(written[c].pattern)) =>
      /\ Len(relationships[c]) = Cardinality(BetweenNodesAt(written[c].pattern))
      /\ \A k \in 1..Len(relationships[c]) :
           Names(relationships[c][k].source,
                 written[c].pattern[Nth(BetweenNodesAt(written[c].pattern), k) - 1])

\* C20: in a query returned, no alias is introduced twice by the FROM
\* clause and the node JOINs, also when the pattern comes back to a node.
NodeIntroducedOnce ==
  \A c \in Calls :
    pc[c] = "returned" =>
      \A i, j \in FromAt(result[c].parts) \cup NodeJoinsAt(result[c].parts) :
        i # j => result[c].parts[i][2] # result[c].parts[j][2]

\* C21: after the pattern is parsed, the source and the target of every
\* relationship recorded are keys of nodes, whatever the MATCH clause text
\* holds (segments that do not parse, nodes without a variable).
EndpointsAreNodes ==
  \A c \in Calls :
    pc[c] \in {"parsed", "returned"} =>
      \A k \in 1..Len(relationships[c]) :
        /\ relationships[c][k].source \in NodeVars(nodes[c])
        /\ relationships[c][k].target \in NodeVars(nodes[c])

\* C21, its case: a pattern with a node without a variable after a
\* relationship and a segment that does not parse, parsed with two
\* different names drawn, a relationship recorded
AnonymousEndpointParsed ==
  \E c \in Calls :
    /\ pc[c] = "parsed"
    /\ written[c].form = "built"
    /\ \E p \in 1..Len(written[c].pattern) : written[c].pattern[p].kind = "junk"
    /\ \E k \in 1..Len(relationships[c]) :
         IsAnonName(relationships[c][k].target)
    /\ Len(draws[c]) >= 2 /\ draws[c][1] # draws[c][2]

\* the pattern call c was written with is the MATCH clause it extracted
HasWrittenPattern(c) ==
  /\ written[c].form = "built"
  /\ match_clause[c] = RenderPattern(written[c].pattern)

\* the places of the node elements of a pattern
NodesAt(pattern) == {p \in 1..Len(pattern) : pattern[p].kind = "node"}

\* C22: a query returned has exactly one FROM fragment; its alias is the
\* variable of the node inserted first into nodes, which is the first
\* element of the pattern that parses as a node, whatever the directions of
\* the relationships.
FromIsFirstNode ==
  \A c \in Calls :
    pc[c] = "returned" =>
      /\ Cardinality(FromAt(result[c].parts)) = 1
      /\ \A i \in FromAt(result[c].parts) :
           /\ result[c].parts[i][2] = Identifier(nodes[c][1].variable)
           /\ HasWrittenPattern(c) =>
                /\ NodesAt(written[c].pattern) # {}
                /\ Names(result[c].parts[i][2].text,
                         written[c].pattern[MinOf(NodesAt(written[c].pattern))])

\* C22, its case: a query returned for a pattern whose first element does
\* not parse and whose recorded relationship points to the left
FromWithInwardRelationship ==
  \E c \in Calls :
    /\ pc[c] = "returned"
    /\ HasWrittenPattern(c)
    /\ written[c].pattern[1].kind = "junk"
    /\ Len(relationships[c]) = 1
    /\ relationships[c][1].direction = "in"
    /\ \A i \in FromAt(result[c].parts) :
         result[c].parts[i][2].text = relationships[c][1].source

\* where the WHERE keyword stands in a query, or one past its end
WhereAt(parts) ==
  MinOf({i \in 1..Len(parts) : parts[i] = <<SQL(" WHERE ")>>}
          \cup {Len(parts) + 1})

\* the part belongs to the JOINs: the JOIN of an edge relation, a part of
\* its predicate, or the JOIN of a node
IsJoinPart(parts, i) ==
  \/ i \in EdgeJoinsAt(parts)
  \/ i \in NodeJoinsAt(parts)
  \/ IsSourceBinding(parts[i])
  \/ IsTypeCondition(parts[i])
  \/ IsTargetBinding(parts[i])

\* C23: the fragments of a query returned are SELECT and the projection,
\* then the one FROM, then the JOINs, then WHERE and the conditions; the
\* edge JOINs stand in the order the relationships were recorded, each
\* followed by its predicate, and every node JOIN stands directly after the
\* predicate of the relationship whose target it joins.
FragmentsAreOrdered ==
  \A c \in Calls :
    pc[c] = "returned" =>
      /\ Len(result[c].parts) >= 3
      /\ result[c].parts[1] = <<SQL("SELECT ")>>
      /\ result[c].parts[2] # <<>>
      /\ FromAt(result[c].parts) = {3}
      /\ WhereAt(result[c].parts) \in {Len(result[c].parts) - 1,
                                       Len(result[c].parts) + 1}
      /\ \A i \in 4..(WhereAt(result[c].parts) - 1) :
           IsJoinPart(result[c].parts, i)
      /\ \A i \in 1..Len(result[c].parts) :
           IsJoinPart(result[c].parts, i)
             => (3 < i /\ i < WhereAt(result[c].parts))
      /\ Cardinality(EdgeJoinsAt(result[c].parts)) = Len(relationships[c])
      /\ \A k \in 1..Len(relationships[c]) :
           LET e == Nth(EdgeJoinsAt(result[c].parts), k)
           IN /\ result[c].parts[e][2]
                   = Identifier(AliasOf(relationships[c][k]))
              /\ IsSourceBinding(result[c].parts[e + 1])
      /\ \A i \in NodeJoinsAt(result[c].parts) :
           /\ IsTargetBinding(result[c].parts[i - 1])
           /\ result[c].parts[i][2] = result[c].parts[i - 1][4]

\* C23, its case: a query returned with two edge JOINs, two node JOINs and
\* conditions
AllGroupsReturned ==
  \E c \in Calls :
    /\ pc[c] = "returned"
    /\ Cardinality(EdgeJoinsAt(result[c].parts)) = 2
    /\ Cardinality(NodeJoinsAt(result[c].parts)) = 2
    /\ WhereAt(result[c].parts) = Len(result[c].parts) - 1
    /\ relationships[c][1].type # <<>>

\* how many conditions a node gives: one for its label, one for each of its
\* properties
FiltersOf(node) == (IF node.label # <<>> THEN 1 ELSE 0) + Len(node.properties)

RECURSIVE TargetFilters(_, _)
\* how many conditions the joined targets of the relationships rels give
TargetFilters(ns, rels) ==
  IF rels = <<>> THEN 0
  ELSE (IF Head(rels).target # ns[1].variable
          THEN FiltersOf(NodeOf(ns, Head(rels).target)) ELSE 0)
         + TargetFilters(ns, Tail(rels))

\* the WHERE clause of call c holds a comparison on a node of the pattern
HasAcceptedComparison(c) ==
  /\ where_clause[c] # <<>>
  /\ where_pattern(where_clause[c]) # <<>>
  /\ where_pattern(where_clause[c])[1].var_name \in NodeVars(nodes[c])

\* how many conditions call c accumulates
Accumulated(c) ==
  FiltersOf(nodes[c][1]) + TargetFilters(nodes[c], relationships[c])
    + (IF HasAcceptedComparison(c) THEN 1 ELSE 0)

\* C24: a query returned holds a WHERE fragment exactly when a condition
\* was accumulated (a label or property filter of the base node or of a
\* joined target, or an accepted comparison); it then holds one WHERE,
\* followed by one fragment with all the conditions, AND between them.
WhereIffConditions ==
  \A c \in Calls :
    pc[c] = "returned" =>
      /\ Cardinality({i \in 1..Len(result[c].parts) :
                        result[c].parts[i] = <<SQL(" WHERE ")>>})
           = (IF Accumulated(c) > 0 THEN 1 ELSE 0)
      /\ Accumulated(c) > 0 =>
           /\ WhereAt(result[c].parts) = Len(result[c].parts) - 1
           /\ Cardinality(ConditionsAt(result[c].parts)) = Accumulated(c)
           /\ result[c].parts[Len(result[c].parts)][
                 Len(result[c].parts[Len(result[c].parts)])] # SQL(" AND ")

\* C24, its cases: a query returned with a label filter, a property filter
\* of a joined target and a comparison
ThreeKindsOfCondition ==
  \E c \in Calls :
    /\ pc[c] = "returned"
    /\ HasAcceptedComparison(c)
    /\ FiltersOf(nodes[c][1]) = 1
    /\ TargetFilters(nodes[c], relationships[c]) = 2
    /\ Cardinality(ConditionsAt(result[c].parts)) = 4

\* the aliases a query introduces: the ones after AS in its FROM and JOINs
Introduced(parts) ==
  { parts[i][2] : i \in FromAt(parts) \cup AnyJoinAt(parts) }

\* C25: in a query returned, every alias that stands in the projection, in
\* a join predicate or in a condition is introduced by the FROM fragment or
\* by a JOIN fragment of the query.
EveryAliasIsIntroduced ==
  \A c \in Calls :
    pc[c] = "returned" =>
      \A ij \in Places(result[c].parts) :
        result[c].parts[ij[1]][ij[2]].kind = "Identifier"
          => result[c].parts[ij[1]][ij[2]] \in Introduced(result[c].parts)

\* the node aliases a query has introduced before its part i
IntroducedBefore(parts, i) ==
  { parts[k][2] : k \in {j \in FromAt(parts) \cup NodeJoinsAt(parts) : j < i} }

\* C26: in a query returned, the node alias in each part of the predicate
\* of an edge JOIN (the one bound to the source side, the one bound to the
\* target side) is introduced by the FROM fragment or by a node JOIN that
\* stands before that part.
PredicateUsesEarlierAliases ==
  \A c \in Calls :
    pc[c] = "returned" =>
      \A i \in 1..Len(result[c].parts) :
        /\ IsSourceBinding(result[c].parts[i])
             => result[c].parts[i][2] \in IntroducedBefore(result[c].parts, i)
        /\ IsTargetBinding(result[c].parts[i])
             => result[c].parts[i][4] \in IntroducedBefore(result[c].parts, i)

\* C27: in a query returned, the edge JOINs have pairwise different
\* aliases, and no alias of an edge JOIN is the alias of the FROM fragment
\* or of a node JOIN.
EdgeAliasesAreDistinct ==
  \A c \in Calls :
    pc[c] = "returned" =>
      /\ \A i, j \in EdgeJoinsAt(result[c].parts) :
           i # j => result[c].parts[i][2] # result[c].parts[j][2]
      /\ \A i \in EdgeJoinsAt(result[c].parts) :
           \A j \in FromAt(result[c].parts) \cup NodeJoinsAt(result[c].parts) :
             result[c].parts[i][2] # result[c].parts[j][2]

\* the synthetic names among the keys of nodes
AnonNames(ns) == {v \in NodeVars(ns) : IsAnonName(v)}

\* C28: after the pattern is parsed, nodes has no more entries than the
\* pattern has node segments, and no more synthetic names than the pattern
\* has node segments without a variable: every such segment has one name.
OneEntryPerNodeSegment ==
  \A c \in Calls :
    (pc[c] \in {"parsed", "returned"} /\ HasWrittenPattern(c)) =>
      /\ Len(nodes[c]) <= Cardinality(NodesAt(written[c].pattern))
      /\ Cardinality(AnonNames(nodes[c]))
           <= Cardinality({p \in NodesAt(written[c].pattern) :
                             written[c].pattern[p].var = <<>>})

\* how many of the conditions of a query open with the atoms of head
CountConditions(parts, head) ==
  Cardinality({j \in ConditionsAt(parts) : At(WherePart(parts), j, head)})

\* C29: in a query returned, every node of nodes with a label has exactly
\* one type condition on its alias with that label, and every property of
\* every node has exactly one property condition on the node's alias with
\* the property's key.
NodeFiltersOnce ==
  \A c \in Calls :
    pc[c] = "returned" =>
      \A n \in 1..Len(nodes[c]) :
        /\ nodes[c][n].label # <<>> =>
             CountConditions(result[c].parts,
                             <<Identifier(nodes[c][n].variable),
                               SQL(".type = "),
                               Literal(nodes[c][n].label)>>) = 1
        /\ \A i \in 1..Len(nodes[c][n].properties) :
             CountConditions(result[c].parts,
                             <<Identifier(nodes[c][n].variable),
                               SQL(".properties->>"),
                               Literal(nodes[c][n].properties[i][1]),
                               SQL("=")>>) = 1

\* the pattern with the property maps of its relationships taken out
WithoutRelProps(pattern) ==
  [p \in 1..Len(pattern) |->
     IF pattern[p].kind = "rel" THEN [pattern[p] EXCEPT !.props = <<>>]
     ELSE pattern[p]]

\* C30: a query written with properties inside the brackets of a
\* relationship ends as the query that differs from it only in having no
\* such properties ends.
RelPropertiesChangeNothing ==
  \A c \in Calls :
    ( /\ pc[c] \in {"raised", "returned"}
      /\ written[c].form = "built"
      /\ WithoutRelProps(written[c].pattern) # written[c].pattern )
      => result[c]
           = parse(Render(Built(WithoutRelProps(written[c].pattern),
                                written[c].where, written[c].items)),
                   draws[c])

=============================================================================
